---- MODULE Spec2Model ----
(***************************************************************************)
(* Route-construction engine of route-runner-pakketjes:                    *)
(* ClusteringService (seed-and-grow clustering, redistribution of small    *)
(* clusters, bike anchor, nearest-neighbour + 2-opt walking route, cycling *)
(* totals of createBikeWalkRoute).                                         *)
(*                                                                         *)
(* Geometry.  Coordinates are <<lng, lat>> pairs as in the source, given   *)
(* in a local frame whose unit is GridMetres metres.  calculateDistance    *)
(* (Haversine in the source) is the planar distance between two points in  *)
(* whole metres, rounded down; it is symmetric and zero exactly for equal  *)
(* points, like the source's.                                              *)
(*                                                                         *)
(* Geocoding.  GeocodingService (OpenCage), MapBoxGeocodingService and     *)
(* DutchGeocodingService (PDOK, PostcodeAPI) behind                        *)
(* UnifiedGeocodingService: geocodeAddress step by step, calls following   *)
(* one another on the cache, and geocodeAddresses with its batches.        *)
(* Geographic coordinates are <<lng, lat>> in units of 0.0001 degree,      *)
(* confidences are hundredths, times are milliseconds, and the strings     *)
(* the code inspects are sequences of one-character strings.               *)
(***************************************************************************)
EXTENDS Integers, Sequences, FiniteSets, TLC

VARIABLES
    addresses,          \* createClusters: the `addresses` argument
    settings,           \* BikeWalkSettings argument
    pc,                 \* position inside createBikeWalkRoute / createCluster
    unassigned,         \* createClusters: addresses not yet in a cluster
    clusterId,          \* createClusters: next cluster number
    clusters,           \* createClusters: result of seed-and-grow
    smallClusters,      \* redistributeSmallClusters: small clusters still to handle
    optimizedClusters,  \* redistributeSmallClusters: the list being returned
    result,             \* createBikeWalkRoute: the returned BikeWalkRoute
    bikeLocation,       \* createCluster: anchor of the cluster being built
    remaining,          \* nearestNeighborRoute: addresses not yet placed
    currentLocation,    \* nearestNeighborRoute: current position
    route,              \* nearestNeighborRoute: route under construction / its result
    currentRoute,       \* twoOptOptimization: current route
    improved,           \* twoOptOptimization: loop flag
    cluster,            \* createCluster: the returned Cluster
    provider,           \* UnifiedGeocodingService.currentProvider
    cache,              \* the active provider service's `cache` map
    now,                \* Date.now(), in milliseconds
    call,               \* geocodeAddress: the locals of the call in progress
    calls,              \* the geocodeAddress calls that have settled, oldest first
    tasks,              \* geocodeAddresses: the geocodeAddress calls of the current batch
    batch,              \* geocodeAddresses: its locals (batches left, results, errors)
    selectedSession,    \* RouteVisualization: the session shown
    currentAddressIndex,\* RouteVisualization: position in optimizedOrder
    isActive,           \* RouteVisualization: route being walked
    completedAddresses, \* RouteVisualization: ids of the addresses marked complete
    pausedAt,           \* position and completed ids when pauseRoute last ran
    earnings,           \* localStorage 'route-runner-earnings'
    routeEarnings,      \* localStorage 'route-runner-route-earnings'
    nextId,             \* EarningsService.generateId: ids handed out so far
    points,             \* getOptimalWalkingRoute: the `points` argument
    walking,            \* getOptimalWalkingRoute: its locals
    routeCache,         \* WalkingRoutingService.cache
    optimal             \* getOptimalWalkingRoute: the returned object

vars == <<addresses, settings, pc, unassigned, clusterId, clusters, smallClusters,
          optimizedClusters, result, bikeLocation, remaining, currentLocation,
          route, currentRoute, improved, cluster,
          provider, cache, now, call, calls, tasks, batch,
          selectedSession, currentAddressIndex, isActive, completedAddresses, pausedAt,
          earnings, routeEarnings, nextId,
          points, walking, routeCache, optimal>>

clusterVars == <<unassigned, clusterId, clusters, smallClusters, optimizedClusters, result>>
walkVars == <<bikeLocation, remaining, currentLocation, route, currentRoute, improved, cluster>>
geoVars == <<provider, cache, now, call, calls, tasks, batch>>
navVars == <<selectedSession, currentAddressIndex, isActive, completedAddresses, pausedAt>>
earningsVars == <<earnings, routeEarnings, nextId>>
optimalVars == <<points, walking, routeCache, optimal>>
appVars == <<navVars, earningsVars, optimalVars>>

-----------------------------------------------------------------------------
(* Bounds of the model *)

\* longest address list passed to createBikeWalkRoute
MaxAddresses == 5

\* longest address list passed to createCluster in the step-by-step runs
MaxClusterAddresses == 4

-----------------------------------------------------------------------------
(* Geometry *)

\* DEFAULT_BIKE_WALK_SETTINGS.maxWalkingDistance, in metres
DefaultMaxWalkingDistance == 400

\* metres per coordinate unit: half the default walking distance
GridMetres == DefaultMaxWalkingDistance \div 2

\* an address whose `coordinates` field is undefined
NoCoordinates == <<>>

\* settings.homeBase undefined
NoHomeBase == [none |-> TRUE]

\* coordinates of the addresses of a street (clustering runs), <<lng, lat>>: at 0 m,
\* 400 m and 600 m along the street
StreetCoordinates == {<<0, 0>>, <<2, 0>>, <<3, 0>>}

\* coordinates of the addresses of a block (walking-route runs): <<lng, lat>>
BlockCoordinates == {<<0, 0>>, <<1, 0>>, <<2, 0>>, <<0, 1>>, <<1, 1>>, <<2, 1>>}

\* the default anchor { lat: 52.0907, lng: 5.1214 } (Utrecht), a point of no address
DefaultBikeLocation == [lat |-> 9, lng |-> 9]

\* largest squared coordinate distance between any two points of the model
MaxSquare == 2 * DefaultBikeLocation.lat * DefaultBikeLocation.lat

\* floor(sqrt(n)), searched between lo and hi
RECURSIVE SqrtBetween(_, _, _)
SqrtBetween(n, lo, hi) ==
    IF lo = hi THEN lo
    ELSE LET mid == (lo + hi + 1) \div 2
         IN  IF mid * mid <= n THEN SqrtBetween(n, mid, hi) ELSE SqrtBetween(n, lo, mid - 1)

\* metres between two points whose squared coordinate distance is d2, rounded down
DistanceTable ==
    [d2 \in 0..MaxSquare |->
        SqrtBetween(GridMetres * GridMetres * d2, 0, 2 * GridMetres * DefaultBikeLocation.lat)]

calculateDistance(lat1, lng1, lat2, lng2) ==
    DistanceTable[(lat2 - lat1) * (lat2 - lat1) + (lng2 - lng1) * (lng2 - lng1)]

\* `Infinity` of nearestNeighborRoute: larger than every distance
Infinity == DistanceTable[MaxSquare] + 1

-----------------------------------------------------------------------------
(* Sequence helpers (Array.prototype.splice / slice / reverse / map) *)

\* s.splice(i, 1) with a 1-based index: s without its i-th element
RemoveAt(s, i) == SubSeq(s, 1, i - 1) \o SubSeq(s, i + 1, Len(s))

Reverse(s) == [k \in 1..Len(s) |-> s[Len(s) + 1 - k]]

\* addresses.map(addr => addr.id)
Ids(s) == [k \in 1..Len(s) |-> s[k].id]

Range(s) == {s[k] : k \in 1..Len(s)}

HasCoordinates(addr) == addr.coordinates # NoCoordinates

Lat(addr) == addr.coordinates[2]
Lng(addr) == addr.coordinates[1]

RECURSIVE SumSeq(_)
SumSeq(s) == IF s = <<>> THEN 0 ELSE Head(s) + SumSeq(Tail(s))

-----------------------------------------------------------------------------
(* calculateOptimalBikeLocation *)

ValidAddresses(addrs) == SelectSeq(addrs, HasCoordinates)

\* sumLat / sumLng of calculateOptimalBikeLocation
SumLat(valid) == SumSeq([k \in 1..Len(valid) |-> Lat(valid[k])])
SumLng(valid) == SumSeq([k \in 1..Len(valid) |-> Lng(valid[k])])

\* Distance of valid[k] to the geometric centre (sumLat / n, sumLng / n).  The centre
\* is no grid point, so the distance is kept exact as its square scaled by n * n;
\* the comparisons of the search loop come out as for the distance itself.
CenterDistance(valid, k) ==
    LET n == Len(valid)
        dLat == n * Lat(valid[k]) - SumLat(valid)
        dLng == n * Lng(valid[k]) - SumLng(valid)
    IN  dLat * dLat + dLng * dLng

\* the loop `for (let i = 1; ...) if (distance < minDistance) ...`
RECURSIVE ClosestAddress(_, _, _)
ClosestAddress(valid, i, closest) ==
    IF i > Len(valid) THEN closest
    ELSE IF CenterDistance(valid, i) < CenterDistance(valid, closest)
         THEN ClosestAddress(valid, i + 1, i)
         ELSE ClosestAddress(valid, i + 1, closest)

\* calculateOptimalBikeLocation returning the geometric centre itself (rounded to the
\* grid) instead of the address closest to it
calculateBikeLocationAtCentre(addrs) ==
    LET valid == ValidAddresses(addrs)
    IN  IF Len(valid) = 0 THEN DefaultBikeLocation
        ELSE [lat |-> SumLat(valid) \div Len(valid), lng |-> SumLng(valid) \div Len(valid)]

calculateOptimalBikeLocation(addrs) ==
    LET valid == ValidAddresses(addrs)
    IN  IF Len(valid) = 0 THEN DefaultBikeLocation
        ELSE IF Len(valid) = 1 THEN [lat |-> Lat(valid[1]), lng |-> Lng(valid[1])]
        ELSE LET closest == valid[ClosestAddress(valid, 2, 1)]
             IN  [lat |-> Lat(closest), lng |-> Lng(closest)]

-----------------------------------------------------------------------------
(* nearestNeighborRoute *)

\* the inner for loop taking the later of two equally near addresses
RECURSIVE NearestScanLatest(_, _, _, _, _)
NearestScanLatest(rem, loc, i, nearestIndex, nearestDistance) ==
    IF i > Len(rem) THEN nearestIndex
    ELSE IF ~HasCoordinates(rem[i])
    THEN NearestScanLatest(rem, loc, i + 1, nearestIndex, nearestDistance)
    ELSE LET distance == calculateDistance(loc.lat, loc.lng, Lat(rem[i]), Lng(rem[i]))
         IN  IF distance <= nearestDistance
             THEN NearestScanLatest(rem, loc, i + 1, i, distance)
             ELSE NearestScanLatest(rem, loc, i + 1, nearestIndex, nearestDistance)

\* the inner for loop: index of the nearest remaining address with coordinates
RECURSIVE NearestScan(_, _, _, _, _)
NearestScan(rem, loc, i, nearestIndex, nearestDistance) ==
    IF i > Len(rem) THEN nearestIndex
    ELSE IF ~HasCoordinates(rem[i]) THEN NearestScan(rem, loc, i + 1, nearestIndex, nearestDistance)
    ELSE LET distance == calculateDistance(loc.lat, loc.lng, Lat(rem[i]), Lng(rem[i]))
         IN  IF distance < nearestDistance
             THEN NearestScan(rem, loc, i + 1, i, distance)
             ELSE NearestScan(rem, loc, i + 1, nearestIndex, nearestDistance)

NearestIndex(rem, loc) == NearestScan(rem, loc, 1, 1, Infinity)

\* currentLocation after visiting `nearest`
NextLocation(nearest, loc) ==
    IF HasCoordinates(nearest) THEN [lat |-> Lat(nearest), lng |-> Lng(nearest)] ELSE loc

\* the while loop of nearestNeighborRoute
RECURSIVE NearestLoop(_, _, _)
NearestLoop(rt, rem, loc) ==
    IF rem = <<>> THEN rt
    ELSE LET k == NearestIndex(rem, loc)
         IN  NearestLoop(Append(rt, rem[k]), RemoveAt(rem, k), NextLocation(rem[k], loc))

nearestNeighborRoute(addrs, bike) ==
    NearestLoop(<<>>, addrs, [lat |-> bike.lat, lng |-> bike.lng])

-----------------------------------------------------------------------------
(* calculateRouteDistance, twoOptOptimization *)

\* one leg, counted only when both ends have coordinates
Leg(from, to) ==
    IF HasCoordinates(from) /\ HasCoordinates(to)
    THEN calculateDistance(Lat(from), Lng(from), Lat(to), Lng(to))
    ELSE 0

\* leg between the bike and an address
BikeLeg(bike, addr) ==
    IF HasCoordinates(addr) THEN calculateDistance(bike.lat, bike.lng, Lat(addr), Lng(addr)) ELSE 0

calculateRouteDistance(rt, bike) ==
    IF Len(rt) = 0 THEN 0
    ELSE BikeLeg(bike, rt[1])
         + SumSeq([k \in 1..(Len(rt) - 1) |-> Leg(rt[k], rt[k + 1])])
         + BikeLeg(bike, rt[Len(rt)])

\* ReverseSegment with the slice one element short (slice(i + 1, j)): the stop at
\* `last` is dropped
ReverseSegmentShort(rt, first, last) ==
    SubSeq(rt, 1, first - 1) \o Reverse(SubSeq(rt, first, last - 1)) \o SubSeq(rt, last + 1, Len(rt))

\* newRoute: currentRoute with the segment at positions first..last reversed
ReverseSegment(rt, first, last) ==
    SubSeq(rt, 1, first - 1) \o Reverse(SubSeq(rt, first, last)) \o SubSeq(rt, last + 1, Len(rt))

\* Improves accepting a route of the same length as well
ImprovesOrEqual(newRoute, current, bike) ==
    calculateRouteDistance(newRoute, bike) <= calculateRouteDistance(current, bike)

\* Improves with the comparison turned round: a longer route is accepted
ImprovesReversed(newRoute, current, bike) ==
    calculateRouteDistance(newRoute, bike) > calculateRouteDistance(current, bike)

\* is newRoute accepted in place of currentRoute
Improves(newRoute, current, bike) ==
    calculateRouteDistance(newRoute, bike) < calculateRouteDistance(current, bike)

\* The two nested for loops of one pass, from the pair (i, j) on (1-based: i is the
\* source's i + 1, j the source's j + 1).  Returns the route and the flag.
RECURSIVE TwoOptScan(_, _, _, _, _)
TwoOptScan(current, flag, i, j, bike) ==
    LET n == Len(current)
    IN  IF i > n - 1 THEN [route |-> current, improved |-> flag]
        ELSE IF j > n THEN TwoOptScan(current, flag, i + 1, i + 3, bike)
        ELSE IF j = n /\ i = 1 THEN TwoOptScan(current, flag, i, j + 1, bike)
        ELSE LET newRoute == ReverseSegment(current, i + 1, j)
             IN  IF Improves(newRoute, current, bike)
                 THEN TwoOptScan(newRoute, TRUE, i, j + 1, bike)
                 ELSE TwoOptScan(current, flag, i, j + 1, bike)

\* a pass that tries no reversal
TwoOptPassTryingNone(current, bike) == [route |-> current, improved |-> FALSE]

\* one iteration of `while (improved)`
TwoOptPass(current, bike) == TwoOptScan(current, FALSE, 1, 3, bike)

RECURSIVE TwoOptLoop(_, _)
TwoOptLoop(current, bike) ==
    LET pass == TwoOptPass(current, bike)
    IN  IF pass.improved THEN TwoOptLoop(pass.route, bike) ELSE pass.route

twoOptOptimization(rt, bike) == TwoOptLoop(rt, bike)

optimizeWalkingRoute(addrs, bike) ==
    IF Len(addrs) <= 1 THEN addrs
    ELSE IF Len(addrs) = 2 THEN addrs
    ELSE twoOptOptimization(nearestNeighborRoute(addrs, bike), bike)

\* totalDistance of calculateWalkingStats (the bike location is recomputed there)
calculateWalkingStats(addrs, walkingRoute) ==
    LET bike == calculateOptimalBikeLocation(addrs)
    IN  (IF Len(walkingRoute) > 0 THEN BikeLeg(bike, walkingRoute[1]) ELSE 0)
        + SumSeq([k \in 1..(Len(walkingRoute) - 1) |-> Leg(walkingRoute[k], walkingRoute[k + 1])])
        + (IF Len(walkingRoute) > 0 THEN BikeLeg(bike, walkingRoute[Len(walkingRoute)]) ELSE 0)

\* the Cluster record returned by createCluster
ClusterRecord(id, addrs, bike, walkingRoute) ==
    [id |-> id,
     addresses |-> Ids(addrs),
     bikeLocation |-> bike,
     walkingRoute |-> Ids(walkingRoute),
     totalWalkingDistance |-> calculateWalkingStats(addrs, walkingRoute)]

createCluster(id, addrs) ==
    LET bike == calculateOptimalBikeLocation(addrs)
    IN  ClusterRecord(id, addrs, bike, optimizeWalkingRoute(addrs, bike))

-----------------------------------------------------------------------------
(* createClusters: seed-and-grow *)

\* clusterAddresses.some(clusterAddr => ... distance <= settings.maxWalkingDistance)
WithinRange(address, clusterAddresses, s) ==
    \E k \in 1..Len(clusterAddresses) :
        /\ HasCoordinates(address)
        /\ HasCoordinates(clusterAddresses[k])
        /\ calculateDistance(Lat(clusterAddresses[k]), Lng(clusterAddresses[k]),
                             Lat(address), Lng(address)) <= s.maxWalkingDistance

\* the scan without the test of the cluster size
RECURSIVE GrowScanAnySize(_, _, _, _)
GrowScanAnySize(clusterAddresses, unass, i, s) ==
    IF ~(i <= Len(unass))
    THEN [clusterAddresses |-> clusterAddresses, unassigned |-> unass]
    ELSE IF WithinRange(unass[i], clusterAddresses, s)
         THEN GrowScanAnySize(Append(clusterAddresses, unass[i]), RemoveAt(unass, i), i, s)
         ELSE GrowScanAnySize(clusterAddresses, unass, i + 1, s)

\* the inner while loop: one scan over `unassigned` from index i (1-based)
RECURSIVE GrowScan(_, _, _, _)
GrowScan(clusterAddresses, unass, i, s) ==
    IF ~(i <= Len(unass) /\ Len(clusterAddresses) < s.preferredClusterSize)
    THEN [clusterAddresses |-> clusterAddresses, unassigned |-> unass]
    ELSE IF WithinRange(unass[i], clusterAddresses, s)
         THEN GrowScan(Append(clusterAddresses, unass[i]), RemoveAt(unass, i), i, s)
         ELSE GrowScan(clusterAddresses, unass, i + 1, s)

\* one iteration of the outer while loop, up to the createCluster call
GrowFromSeed(unass, s) == GrowScan(<<unass[1]>>, RemoveAt(unass, 1), 1, s)

-----------------------------------------------------------------------------
(* redistributeSmallClusters *)

Max(a, b) == IF a >= b THEN a ELSE b

\* Math.max(2, Math.floor(settings.preferredClusterSize * 0.4))
minClusterSize(s) == Max(2, (s.preferredClusterSize * 4) \div 10)

IsSmall(c, s) == Len(c.addresses) < minClusterSize(s)

\* addressMap.get(id): the entry set last for that id
AddressMapGet(addrs, id) ==
    addrs[CHOOSE k \in 1..Len(addrs) :
              addrs[k].id = id /\ \A j \in (k + 1)..Len(addrs) : addrs[j].id # id]

\* ids.map(id => addressMap.get(id)).filter(addr => addr !== undefined)
AddressesOf(ids, addrs) ==
    LET known == SelectSeq(ids, LAMBDA id : \E k \in 1..Len(addrs) : addrs[k].id = id)
    IN  [k \in 1..Len(known) |-> AddressMapGet(addrs, known[k])]

\* TooLarge with the cap at twice the preferred size
TooLargeAgainstDouble(target, smallAddresses, s) ==
    Len(target.addresses) + Len(smallAddresses) > 2 * s.preferredClusterSize

\* targetCluster.addresses.length + smallClusterAddresses.length > preferredClusterSize * 1.5
TooLarge(target, smallAddresses, s) ==
    2 * (Len(target.addresses) + Len(smallAddresses)) > 3 * s.preferredClusterSize

\* smallClusterAddresses.every(smallAddr => targetAddresses.some(...))
AllWithinRange(smallAddresses, targetAddresses, s) ==
    \A i \in 1..Len(smallAddresses) :
        /\ HasCoordinates(smallAddresses[i])
        /\ \E k \in 1..Len(targetAddresses) :
               /\ HasCoordinates(targetAddresses[k])
               /\ calculateDistance(Lat(smallAddresses[i]), Lng(smallAddresses[i]),
                                    Lat(targetAddresses[k]), Lng(targetAddresses[k]))
                      <= s.maxWalkingDistance

Score(target, targetAddresses, smallAddresses, s) ==
    LET targetCenter == calculateOptimalBikeLocation(targetAddresses)
        smallCenter == calculateOptimalBikeLocation(smallAddresses)
        distance == calculateDistance(targetCenter.lat, targetCenter.lng,
                                      smallCenter.lat, smallCenter.lng)
    IN  (s.maxWalkingDistance - distance)
        + (s.preferredClusterSize - Len(target.addresses)) * 100

\* bestScore before the first target is looked at
InitialBestScore == -1

\* The loop over optimizedClusters from index t on; bestCluster is kept as its index
\* in optimizedClusters, 0 for null.
RECURSIVE BestClusterScan(_, _, _, _, _, _, _)
BestClusterScan(optimized, smallAddresses, addrs, s, t, bestCluster, bestScore) ==
    IF t > Len(optimized) THEN bestCluster
    ELSE IF TooLarge(optimized[t], smallAddresses, s)
         THEN BestClusterScan(optimized, smallAddresses, addrs, s, t + 1, bestCluster, bestScore)
    ELSE LET targetAddresses == AddressesOf(optimized[t].addresses, addrs)
         IN  IF AllWithinRange(smallAddresses, targetAddresses, s)
                /\ Score(optimized[t], targetAddresses, smallAddresses, s) > bestScore
             THEN BestClusterScan(optimized, smallAddresses, addrs, s, t + 1, t,
                                  Score(optimized[t], targetAddresses, smallAddresses, s))
             ELSE BestClusterScan(optimized, smallAddresses, addrs, s, t + 1,
                                  bestCluster, bestScore)

BestCluster(optimized, smallCluster, addrs, s) ==
    BestClusterScan(optimized, AddressesOf(smallCluster.addresses, addrs), addrs, s,
                    1, 0, InitialBestScore)

\* Redistribute with a kept small cluster put in front (unshift for push)
RedistributeKeepingInFront(optimized, smallCluster, addrs, s) ==
    LET best == BestCluster(optimized, smallCluster, addrs, s)
    IN  IF best # 0
        THEN LET mergedAddresses == AddressesOf(optimized[best].addresses, addrs)
                                    \o AddressesOf(smallCluster.addresses, addrs)
             IN  [optimized EXCEPT ![best] = createCluster(optimized[best].id, mergedAddresses)]
        ELSE <<smallCluster>> \o optimized

\* Redistribute with the merged cluster stored at index -1 (a failed indexOf): the
\* merge is lost
RedistributeLosingMerge(optimized, smallCluster, addrs, s) ==
    LET best == BestCluster(optimized, smallCluster, addrs, s)
    IN  IF best # 0 THEN optimized ELSE Append(optimized, smallCluster)

\* the body of `for (const smallCluster of smallClusters)`: the new optimizedClusters
Redistribute(optimized, smallCluster, addrs, s) ==
    LET best == BestCluster(optimized, smallCluster, addrs, s)
    IN  IF best # 0
        THEN LET mergedAddresses == AddressesOf(optimized[best].addresses, addrs)
                                    \o AddressesOf(smallCluster.addresses, addrs)
             IN  [optimized EXCEPT ![best] = createCluster(optimized[best].id, mergedAddresses)]
        ELSE Append(optimized, smallCluster)

\* clusters.forEach(...): the small clusters and the others, each in list order
SmallOf(cs, s) == SelectSeq(cs, LAMBDA c : IsSmall(c, s))

\* NormalOf without the else: every cluster is pushed to optimizedClusters
NormalOfEvery(cs, s) == cs

NormalOf(cs, s) == SelectSeq(cs, LAMBDA c : ~IsSmall(c, s))

-----------------------------------------------------------------------------
(* createBikeWalkRoute: totals *)

HasHomeBase(s) == s.homeBase # NoHomeBase

\* legs between consecutive clusters
ClusterLegs(cs) ==
    SumSeq([k \in 1..(Len(cs) - 1) |->
               calculateDistance(cs[k].bikeLocation.lat, cs[k].bikeLocation.lng,
                                 cs[k + 1].bikeLocation.lat, cs[k + 1].bikeLocation.lng)])

\* totalCyclingDistance without the leg from the last cluster back to the home base
totalCyclingDistanceOneWay(cs, s) ==
    IF HasHomeBase(s) /\ Len(cs) > 0
    THEN calculateDistance(s.homeBase.lat, s.homeBase.lng,
                           cs[1].bikeLocation.lat, cs[1].bikeLocation.lng)
         + ClusterLegs(cs)
    ELSE ClusterLegs(cs)

totalCyclingDistance(cs, s) ==
    IF HasHomeBase(s) /\ Len(cs) > 0
    THEN calculateDistance(s.homeBase.lat, s.homeBase.lng,
                           cs[1].bikeLocation.lat, cs[1].bikeLocation.lng)
         + ClusterLegs(cs)
         + calculateDistance(cs[Len(cs)].bikeLocation.lat, cs[Len(cs)].bikeLocation.lng,
                             s.homeBase.lat, s.homeBase.lng)
    ELSE ClusterLegs(cs)

\* Times are minutes counted in units of 1 / (300 * walkingSpeed * cyclingSpeed) of a
\* minute, the unit in which the three quotients below are whole numbers.

\* cluster.totalWalkingTime: (totalDistance / 1000) / settings.walkingSpeed * 60
totalWalkingTime(c, s) == 18 * c.totalWalkingDistance * s.cyclingSpeed

\* (totalCyclingDistance / 1000) / settings.cyclingSpeed * 60
totalCyclingTime(cs, s) == 18 * totalCyclingDistance(cs, s) * s.walkingSpeed

\* the parking time counted for at least one stop
totalParkingTimeAtLeastOnce(cs, s) ==
    5 * (IF Len(cs) = 0 THEN 1 ELSE Len(cs)) * s.bikeParkingTime * s.walkingSpeed * s.cyclingSpeed

\* clusters.length * settings.bikeParkingTime / 60
totalParkingTime(cs, s) ==
    5 * Len(cs) * s.bikeParkingTime * s.walkingSpeed * s.cyclingSpeed

BikeWalkRoute(cs, s) ==
    LET totalWalkingDistance == SumSeq([k \in 1..Len(cs) |-> cs[k].totalWalkingDistance])
        walkingTime == SumSeq([k \in 1..Len(cs) |-> totalWalkingTime(cs[k], s)])
    IN  [clusters |-> cs,
         totalDistance |-> totalWalkingDistance + totalCyclingDistance(cs, s),
         totalTime |-> walkingTime + totalCyclingTime(cs, s) + totalParkingTime(cs, s),
         walkingDistance |-> totalWalkingDistance,
         cyclingDistance |-> totalCyclingDistance(cs, s),
         walkingTime |-> walkingTime,
         cyclingTime |-> totalCyclingTime(cs, s),
         settings |-> s]

-----------------------------------------------------------------------------
(* Inputs *)

\* address lists with ids 1..n in list order (pairwise distinct), each address at one
\* of the coordinates or without coordinates
AddressLists(coordinates, longest) ==
    UNION {[1..n -> coordinates \cup {NoCoordinates}] : n \in 0..longest}

WithIds(coords) == [k \in 1..Len(coords) |-> [id |-> k, coordinates |-> coords[k]]]

\* preferredClusterSize: 8 is DEFAULT_BIKE_WALK_SETTINGS.preferredClusterSize; the
\* speeds (km/h) and the parking time (s) are those of DEFAULT_BIKE_WALK_SETTINGS
PreferredClusterSizes == {2, 3, 8}

HomeBases == {NoHomeBase, [lat |-> 1, lng |-> 1]}

SettingsChoices ==
    [maxWalkingDistance : {DefaultMaxWalkingDistance, 2 * DefaultMaxWalkingDistance},
     walkingSpeed : {5},
     cyclingSpeed : {18},
     bikeParkingTime : {30},
     preferredClusterSize : PreferredClusterSizes,
     homeBase : HomeBases]

NoResult == [none |-> TRUE]

WalkIdle ==
    /\ bikeLocation = DefaultBikeLocation
    /\ remaining = <<>>
    /\ currentLocation = DefaultBikeLocation
    /\ route = <<>>
    /\ currentRoute = <<>>
    /\ improved = FALSE
    /\ cluster = NoResult

ClusterIdle ==
    /\ unassigned = <<>>
    /\ clusterId = 0
    /\ clusters = <<>>
    /\ smallClusters = <<>>
    /\ optimizedClusters = <<>>
    /\ result = NoResult

\* no geocoding call, request or batch in progress, nothing cached
NoCall == [none |-> TRUE]

\* no session selected in the navigation view
NoSession == [none |-> TRUE]

\* RouteVisualization as mounted: the useState initial values
NavIdle ==
    /\ selectedSession = NoSession
    /\ currentAddressIndex = 0
    /\ isActive = FALSE
    /\ completedAddresses = {}
    /\ pausedAt = NoCall

\* empty localStorage
EarningsIdle ==
    /\ earnings = <<>>
    /\ routeEarnings = <<>>
    /\ nextId = 0

\* no getOptimalWalkingRoute call, empty route cache
OptimalIdle ==
    /\ points = <<>>
    /\ walking = NoCall
    /\ routeCache = <<>>
    /\ optimal = <<>>

AppIdle == NavIdle /\ EarningsIdle /\ OptimalIdle

GeoIdle ==
    /\ provider = "dutch"
    /\ cache = {}
    /\ now = 0
    /\ call = NoCall
    /\ calls = <<>>
    /\ tasks = <<>>
    /\ batch = NoCall

-----------------------------------------------------------------------------
(* createBikeWalkRoute(addresses, settings) *)

Init ==
    /\ \E coords \in AddressLists(StreetCoordinates, MaxAddresses) : addresses = WithIds(coords)
    /\ settings \in SettingsChoices
    /\ pc = "grow"
    /\ unassigned = addresses
    /\ clusterId = 0
    /\ clusters = <<>>
    /\ smallClusters = <<>>
    /\ optimizedClusters = <<>>
    /\ result = NoResult
    /\ WalkIdle
    /\ GeoIdle
    /\ AppIdle

\* createClusters: one iteration of `while (unassigned.length > 0)`
GrowCluster ==
    /\ pc = "grow"
    /\ Len(unassigned) > 0
    /\ LET grown == GrowFromSeed(unassigned, settings)
       IN  /\ unassigned' = grown.unassigned
           /\ clusters' = Append(clusters, createCluster(clusterId, grown.clusterAddresses))
    /\ clusterId' = clusterId + 1
    /\ UNCHANGED <<addresses, settings, pc, smallClusters, optimizedClusters, result>>
    /\ UNCHANGED walkVars
    /\ UNCHANGED geoVars
    /\ UNCHANGED appVars

\* redistributeSmallClusters: entry, the split into small and other clusters
SeparateClusters ==
    /\ pc = "grow"
    /\ Len(unassigned) = 0
    /\ smallClusters' = SmallOf(clusters, settings)
    /\ optimizedClusters' = NormalOf(clusters, settings)
    /\ pc' = "redistribute"
    /\ UNCHANGED <<addresses, settings, unassigned, clusterId, clusters, result>>
    /\ UNCHANGED walkVars
    /\ UNCHANGED geoVars
    /\ UNCHANGED appVars

\* redistributeSmallClusters: one iteration of `for (const smallCluster of smallClusters)`
RedistributeSmallCluster ==
    /\ pc = "redistribute"
    /\ Len(smallClusters) > 0
    /\ optimizedClusters' = Redistribute(optimizedClusters, Head(smallClusters), addresses, settings)
    /\ smallClusters' = Tail(smallClusters)
    /\ UNCHANGED <<addresses, settings, pc, unassigned, clusterId, clusters, result>>
    /\ UNCHANGED walkVars
    /\ UNCHANGED geoVars
    /\ UNCHANGED appVars

\* createBikeWalkRoute: the totals over the clusters createClusters returned
ReturnBikeWalkRoute ==
    /\ pc = "redistribute"
    /\ Len(smallClusters) = 0
    /\ result' = BikeWalkRoute(optimizedClusters, settings)
    /\ pc' = "done"
    /\ UNCHANGED <<addresses, settings, unassigned, clusterId, clusters, smallClusters,
                   optimizedClusters>>
    /\ UNCHANGED walkVars
    /\ UNCHANGED geoVars
    /\ UNCHANGED appVars

Next ==
    \/ GrowCluster
    \/ SeparateClusters
    \/ RedistributeSmallCluster
    \/ ReturnBikeWalkRoute

Spec == Init /\ [][Next]_vars

-----------------------------------------------------------------------------
(* createCluster(id, addresses, settings), step by step *)

InitWalk ==
    /\ \E coords \in AddressLists(BlockCoordinates, MaxClusterAddresses) : addresses = WithIds(coords)
    /\ settings \in SettingsChoices
    /\ settings.maxWalkingDistance = DefaultMaxWalkingDistance
    /\ settings.preferredClusterSize = 8
    /\ settings.homeBase = NoHomeBase
    /\ pc = "createCluster"
    /\ ClusterIdle
    /\ WalkIdle
    /\ GeoIdle
    /\ AppIdle

\* calculateOptimalBikeLocation, and the early returns of optimizeWalkingRoute
ChooseBikeLocation ==
    /\ pc = "createCluster"
    /\ bikeLocation' = calculateOptimalBikeLocation(addresses)
    /\ IF Len(addresses) <= 2
       THEN /\ pc' = "return"
            /\ route' = addresses
            /\ currentRoute' = addresses
            /\ UNCHANGED <<remaining, currentLocation>>
       ELSE /\ pc' = "nearest"
            /\ remaining' = addresses
            /\ currentLocation' = [lat |-> bikeLocation'.lat, lng |-> bikeLocation'.lng]
            /\ route' = <<>>
            /\ UNCHANGED currentRoute
    /\ UNCHANGED <<addresses, settings, improved, cluster>>
    /\ UNCHANGED clusterVars
    /\ UNCHANGED geoVars
    /\ UNCHANGED appVars

\* nearestNeighborRoute: one iteration of `while (remaining.length > 0)`
NearestStep ==
    /\ pc = "nearest"
    /\ Len(remaining) > 0
    /\ LET nearestIndex == NearestIndex(remaining, currentLocation)
       IN  /\ route' = Append(route, remaining[nearestIndex])
           /\ remaining' = RemoveAt(remaining, nearestIndex)
           /\ currentLocation' = NextLocation(remaining[nearestIndex], currentLocation)
    /\ UNCHANGED <<addresses, settings, pc, bikeLocation, currentRoute, improved, cluster>>
    /\ UNCHANGED clusterVars
    /\ UNCHANGED geoVars
    /\ UNCHANGED appVars

\* nearestNeighborRoute returns; twoOptOptimization starts
StartTwoOpt ==
    /\ pc = "nearest"
    /\ Len(remaining) = 0
    /\ currentRoute' = route
    /\ improved' = TRUE
    /\ pc' = "twoOpt"
    /\ UNCHANGED <<addresses, settings, bikeLocation, remaining, currentLocation, route, cluster>>
    /\ UNCHANGED clusterVars
    /\ UNCHANGED geoVars
    /\ UNCHANGED appVars

\* twoOptOptimization: one iteration of `while (improved)`
TwoOptIteration ==
    /\ pc = "twoOpt"
    /\ improved
    /\ LET pass == TwoOptPass(currentRoute, bikeLocation)
       IN  /\ currentRoute' = pass.route
           /\ improved' = pass.improved
    /\ UNCHANGED <<addresses, settings, pc, bikeLocation, remaining, currentLocation, route, cluster>>
    /\ UNCHANGED clusterVars
    /\ UNCHANGED geoVars
    /\ UNCHANGED appVars

\* twoOptOptimization returns
EndTwoOpt ==
    /\ pc = "twoOpt"
    /\ ~improved
    /\ pc' = "return"
    /\ UNCHANGED <<addresses, settings, bikeLocation, remaining, currentLocation, route,
                   currentRoute, improved, cluster>>
    /\ UNCHANGED clusterVars
    /\ UNCHANGED geoVars
    /\ UNCHANGED appVars

\* createCluster returns the Cluster
ReturnCluster ==
    /\ pc = "return"
    /\ cluster' = ClusterRecord(0, addresses, bikeLocation, currentRoute)
    /\ pc' = "clusterDone"
    /\ UNCHANGED <<addresses, settings, bikeLocation, remaining, currentLocation, route,
                   currentRoute, improved>>
    /\ UNCHANGED clusterVars
    /\ UNCHANGED geoVars
    /\ UNCHANGED appVars

NextWalk ==
    \/ ChooseBikeLocation
    \/ NearestStep
    \/ StartTwoOpt
    \/ TwoOptIteration
    \/ EndTwoOpt
    \/ ReturnCluster

SpecWalk == InitWalk /\ [][NextWalk]_vars

\* the step-by-step run returns the cluster createCluster computes in one go
StepsAgree == pc = "clusterDone" => cluster = createCluster(0, addresses)

-----------------------------------------------------------------------------
(* Notions the properties are stated in *)

\* the input address with this id (ids are pairwise distinct)
AddressById(id) == CHOOSE a \in Range(addresses) : a.id = id

\* the [lat, lng] point of an address with coordinates
PointOf(a) == [lat |-> a.coordinates[2], lng |-> a.coordinates[1]]

Metres(p, q) == calculateDistance(p.lat, p.lng, q.lat, q.lng)

\* how often x occurs in the sequence s
Occurrences(s, x) == Cardinality({k \in 1..Len(s) : s[k] = x})

IsPermutationOf(s, t) ==
    /\ Len(s) = Len(t)
    /\ \A x \in Range(s) \cup Range(t) : Occurrences(s, x) = Occurrences(t, x)

\* createClusters has returned
ClustersReturned == (pc = "redistribute" /\ Len(smallClusters) = 0) \/ pc = "done"

\* the cluster seed-and-grow built under the id of c
GrownCluster(c) == CHOOSE g \in Range(clusters) : g.id = c.id

\* c has absorbed at least one small cluster
HasAbsorbed(c) == Len(c.addresses) > Len(GrownCluster(c).addresses)

\* ids of the clusters classified normal in the split
NormalIds == {g.id : g \in {h \in Range(clusters) : Len(h.addresses) >= minClusterSize(settings)}}

\* a redistribution step is about to handle Head(smallClusters)
Redistributing == pc = "redistribute" /\ Len(smallClusters) > 0

\* (a) of the merge condition
FitsInto(small, target) ==
    2 * (Len(target.addresses) + Len(small.addresses)) <= 3 * settings.preferredClusterSize

\* (b) of the merge condition
ReachableFrom(small, target) ==
    \A sid \in Range(small.addresses) :
        \E tid \in Range(target.addresses) :
            /\ HasCoordinates(AddressById(sid))
            /\ HasCoordinates(AddressById(tid))
            /\ Metres(PointOf(AddressById(sid)), PointOf(AddressById(tid)))
                   <= settings.maxWalkingDistance

ValidTargets(small) ==
    {k \in 1..Len(optimizedClusters) :
        FitsInto(small, optimizedClusters[k]) /\ ReachableFrom(small, optimizedClusters[k])}

TargetScore(small, target) ==
    (settings.maxWalkingDistance - Metres(target.bikeLocation, small.bikeLocation))
    + (settings.preferredClusterSize - Len(target.addresses)) * 100

\* the valid target with the highest score, the first one on ties
BestValidTarget(small) ==
    CHOOSE k \in ValidTargets(small) :
        \A j \in ValidTargets(small) :
            \/ TargetScore(small, optimizedClusters[j]) < TargetScore(small, optimizedClusters[k])
            \/ TargetScore(small, optimizedClusters[j]) = TargetScore(small, optimizedClusters[k])
               /\ k <= j

-----------------------------------------------------------------------------
(* C1: the clusters createClusters returns partition the input: every input id is  *)
(* in exactly one returned cluster, exactly once, every member is an input id, and *)
(* no returned cluster is empty.                                                   *)
C1_Partition ==
    ClustersReturned =>
        /\ \A k \in 1..Len(optimizedClusters) : Len(optimizedClusters[k].addresses) > 0
        /\ \A a \in 1..Len(addresses) :
               SumSeq([k \in 1..Len(optimizedClusters) |->
                          Occurrences(optimizedClusters[k].addresses, addresses[a].id)]) = 1
        /\ \A k \in 1..Len(optimizedClusters) :
               Range(optimizedClusters[k].addresses) \subseteq Range(Ids(addresses))

\* reached: createClusters has returned several clusters, one of them after a merge
C1_Witness ==
    /\ ClustersReturned
    /\ Len(optimizedClusters) >= 2
    /\ \E k \in 1..Len(optimizedClusters) : HasAbsorbed(optimizedClusters[k])

-----------------------------------------------------------------------------
\* the anchor of c is the coordinate of one of c's members
AnchorIsMember(c) ==
    \E id \in Range(c.addresses) :
        /\ HasCoordinates(AddressById(id))
        /\ c.bikeLocation = PointOf(AddressById(id))

HasLocatedMember(c) == \E id \in Range(c.addresses) : HasCoordinates(AddressById(id))

-----------------------------------------------------------------------------
(* C3: the walkingRoute of the cluster createCluster returns is a permutation of   *)
(* the cluster's addresses, whatever nearest-neighbour chose and however many      *)
(* reversals 2-opt accepted.                                                       *)
C3_WalkingRoutePermutation ==
    pc = "clusterDone" => IsPermutationOf(cluster.walkingRoute, cluster.addresses)

\* reached: a returned cluster whose route 2-opt changed
C3_Witness ==
    /\ pc = "clusterDone"
    /\ currentRoute # route
    /\ cluster.walkingRoute # cluster.addresses

-----------------------------------------------------------------------------
(* C4: the closed-tour length (anchor, stops in order, anchor) of the route        *)
(* twoOptOptimization holds, and returns, is at most that of the nearest-neighbour *)
(* route it was given.                                                             *)
C4_TwoOptNoRegression ==
    pc \in {"twoOpt", "return", "clusterDone"} =>
        calculateRouteDistance(currentRoute, bikeLocation)
            <= calculateRouteDistance(route, bikeLocation)

\* reached: twoOptOptimization has returned a strictly shorter route
C4_Witness ==
    /\ pc = "return"
    /\ Len(addresses) >= 3
    /\ calculateRouteDistance(currentRoute, bikeLocation)
           < calculateRouteDistance(route, bikeLocation)

-----------------------------------------------------------------------------
(* C5: a redistribution step changes a cluster of optimizedClusters (merges the    *)
(* small cluster into it) only if target size + small size <= 1.5 x                *)
(* preferredClusterSize and every member of the small cluster is within            *)
(* maxWalkingDistance of some member of the target.                                *)
C5_MergeOnlyIfValid ==
    [][Redistributing =>
          \A k \in 1..Len(optimizedClusters) :
              optimizedClusters'[k] # optimizedClusters[k] =>
                  /\ FitsInto(Head(smallClusters), optimizedClusters[k])
                  /\ ReachableFrom(Head(smallClusters), optimizedClusters[k])]_vars

\* reached: a merge has happened, and a small cluster with a target beside it that
\* is in range but too large was kept
C5_Witness ==
    /\ ClustersReturned
    /\ \E k \in 1..Len(optimizedClusters) : HasAbsorbed(optimizedClusters[k])
    /\ \E k, j \in 1..Len(optimizedClusters) :
           /\ optimizedClusters[k].id \notin NormalIds
           /\ ~HasAbsorbed(optimizedClusters[k])
           /\ j < k
           /\ ReachableFrom(optimizedClusters[k], optimizedClusters[j])
           /\ ~FitsInto(optimizedClusters[k], optimizedClusters[j])

-----------------------------------------------------------------------------
(* C6 as stated: whenever a valid target exists for the small cluster, the step    *)
(* merges it into the valid target with the highest score (the first on ties);     *)
(* the small cluster is kept unmerged only when no valid target exists.            *)
C6_MergesIntoBestValidTarget ==
    [][Redistributing =>
          LET small == Head(smallClusters)
          IN  IF ValidTargets(small) # {}
              THEN /\ Len(optimizedClusters') = Len(optimizedClusters)
                   /\ \A k \in 1..Len(optimizedClusters) :
                          optimizedClusters'[k].addresses =
                              IF k = BestValidTarget(small)
                              THEN optimizedClusters[k].addresses \o small.addresses
                              ELSE optimizedClusters[k].addresses
              ELSE optimizedClusters' = Append(optimizedClusters, small)]_vars

-----------------------------------------------------------------------------
(* C7 as stated: a small cluster is only ever absorbed into a cluster classified   *)
(* normal in the split (or the merge product of one), never into a cluster that    *)
(* was classified small and kept.                                                  *)
C7_AbsorbedOnlyByNormal ==
    \A k \in 1..Len(optimizedClusters) :
        HasAbsorbed(optimizedClusters[k]) => optimizedClusters[k].id \in NormalIds

-----------------------------------------------------------------------------
(* C8: redistributeSmallClusters never returns more clusters than it was given.    *)
C8_CountNeverIncreases ==
    /\ pc = "redistribute" => Len(optimizedClusters) + Len(smallClusters) <= Len(clusters)
    /\ ClustersReturned => Len(optimizedClusters) <= Len(clusters)

\* reached: returned with fewer clusters than given, a kept small cluster among them
C8_Witness ==
    /\ ClustersReturned
    /\ Len(optimizedClusters) < Len(clusters)
    /\ \E k \in 1..Len(optimizedClusters) :
           optimizedClusters[k].id \notin NormalIds /\ ~HasAbsorbed(optimizedClusters[k])

-----------------------------------------------------------------------------
\* the position the cyclist is at before riding to the k-th returned cluster
PositionBefore(k) ==
    IF k = 1 THEN settings.homeBase ELSE result.clusters[k - 1].bikeLocation

-----------------------------------------------------------------------------
\* the points cycled through: the anchors in returned order, between two visits of
\* homeBase when it is set and there is a cluster
CyclingPath ==
    LET anchors == [k \in 1..Len(result.clusters) |-> result.clusters[k].bikeLocation]
    IN  IF HasHomeBase(settings) /\ Len(anchors) > 0
        THEN <<[lat |-> settings.homeBase.lat, lng |-> settings.homeBase.lng]>> \o anchors
             \o <<[lat |-> settings.homeBase.lat, lng |-> settings.homeBase.lng]>>
        ELSE anchors

(* C10: cyclingDistance is the sum of the anchor-to-anchor legs along the returned *)
(* order plus, when homeBase is set and a cluster exists, the legs from homeBase   *)
(* to the first anchor and from the last anchor to homeBase.                       *)
C10_CyclingDistance ==
    pc = "done" =>
        result.cyclingDistance =
            SumSeq([k \in 1..(Len(CyclingPath) - 1) |-> Metres(CyclingPath[k], CyclingPath[k + 1])])

\* reached: a route from a home base over several clusters
C10_Witness ==
    /\ pc = "done"
    /\ HasHomeBase(settings)
    /\ Len(result.clusters) >= 2
    /\ result.clusters[1].bikeLocation # result.clusters[2].bikeLocation
    /\ result.cyclingDistance > 0
-----------------------------------------------------------------------------
(***************************************************************************)
(* Geocoding services: GeocodingService (OpenCage), MapBoxGeocodingService,*)
(* DutchGeocodingService and UnifiedGeocodingService.                      *)
(*                                                                         *)
(* Strings that the code inspects (address fields, cache keys) are         *)
(* sequences of one-character strings.  Coordinates are <<lng, lat>> in    *)
(* units of 0.0001 degree, confidences are in hundredths, times are in     *)
(* milliseconds.  The `formatted` and `bagId` fields of a result are left  *)
(* out: no decision of the code reads them.                                *)
(***************************************************************************)

\* ENV.RETRY_ATTEMPTS (VITE_RETRY_ATTEMPTS), the maxRetries of the request functions
RETRY_ATTEMPTS == 2

\* latest clock tick at which a geocoding call is started
MaxClock == 2

\* ENV.GEOCODING_CACHE_DURATION, default value, in milliseconds
GEOCODING_CACHE_DURATION == 86400000

\* DutchGeocodingService.cacheTime
DutchCacheTime == 24 * 60 * 60 * 1000

\* milliseconds per clock tick: half the cache duration
ClockTick == GEOCODING_CACHE_DURATION \div 2

Providers == {"dutch", "mapbox", "opencage"}

\* an object that is absent: `undefined`, `null`
Undefined == [undefined |-> TRUE]

\* a result without `accuracy` field
NoAccuracy == "undefined"

\* NaN, the result of parseInt on a string without leading digits; parseInt as
\* modelled reads no sign, so every number it yields is 0 or more
NaN == 0 - 1

IsNumber(x) == x # NaN

Digits == <<"0", "1", "2", "3", "4", "5", "6", "7", "8", "9">>
UpperCase == <<"A", "B", "C", "D", "E", "F", "G", "H", "I", "J", "K", "L", "M",
               "N", "O", "P", "Q", "R", "S", "T", "U", "V", "W", "X", "Y", "Z">>
LowerCase == <<"a", "b", "c", "d", "e", "f", "g", "h", "i", "j", "k", "l", "m",
               "n", "o", "p", "q", "r", "s", "t", "u", "v", "w", "x", "y", "z">>

IsDigit(c) == \E d \in 1..Len(Digits) : Digits[d] = c
DigitValue(c) == (CHOOSE d \in 1..Len(Digits) : Digits[d] = c) - 1

\* String.prototype.toLowerCase
LowerCaseOf ==
    [c \in {UpperCase[u] : u \in 1..Len(UpperCase)} |->
        LowerCase[CHOOSE u \in 1..Len(UpperCase) : UpperCase[u] = c]]
toLowerCase(s) ==
    [k \in 1..Len(s) |-> IF s[k] \in DOMAIN LowerCaseOf THEN LowerCaseOf[s[k]] ELSE s[k]]

\* String.prototype.substring(0, end)
substring(s, end) == SubSeq(s, 1, IF end < Len(s) THEN end ELSE Len(s))

\* parseInt: leading blanks are skipped, then the longest run of digits is read
RECURSIVE ReadDigits(_, _)
ReadDigits(s, value) ==
    IF Len(s) > 0 /\ IsDigit(Head(s))
    THEN ReadDigits(Tail(s), 10 * value + DigitValue(Head(s)))
    ELSE value

RECURSIVE parseInt(_)
parseInt(s) ==
    IF Len(s) = 0 THEN NaN
    ELSE IF Head(s) = " " THEN parseInt(Tail(s))
    ELSE IF IsDigit(Head(s)) THEN ReadDigits(s, 0)
    ELSE NaN

\* getCacheKey without toLowerCase
getCacheKeyCaseSensitive(address) ==
    address.street \o <<"_">> \o address.houseNumber \o <<"_">>
        \o address.postalCode \o <<"_">> \o address.city

\* getCacheKey: the four fields joined by "_", in lower case
getCacheKey(address) ==
    toLowerCase(address.street \o <<"_">> \o address.houseNumber \o <<"_">>
                \o address.postalCode \o <<"_">> \o address.city)

\* the rows `if (code >= lo && code <= hi) return [lng, lat]` of getPostalCodeCoordinates
PostalCodeTable ==
    <<
       <<1000, 1099, 49041, 523676>>,
       <<1100, 1199, 48952, 523702>>,
       <<1200, 1299, 48600, 523400>>,
       <<1300, 1399, 52213, 521326>>,
       <<1400, 1499, 51600, 522200>>,
       <<1500, 1599, 48180, 524380>>,
       <<1600, 1699, 47700, 525000>>,
       <<1700, 1799, 48500, 526700>>,
       <<1800, 1899, 47500, 526300>>,
       <<1900, 1999, 46180, 524584>>,
       <<2000, 2099, 43571, 521326>>,
       <<2100, 2199, 43200, 521800>>,
       <<2200, 2299, 45041, 521676>>,
       <<2300, 2399, 44777, 521601>>,
       <<2400, 2499, 46500, 521300>>,
       <<2500, 2599, 43013, 520705>>,
       <<2600, 2699, 43600, 520100>>,
       <<2700, 2799, 44900, 520600>>,
       <<2800, 2899, 47100, 520200>>,
       <<2900, 2999, 45400, 520400>>,
       <<3000, 3199, 44777, 519225>>,
       <<3200, 3299, 43300, 518500>>,
       <<3300, 3399, 46700, 518100>>,
       <<3400, 3499, 50400, 520200>>,
       <<3500, 3599, 51214, 520907>>,
       <<3600, 3699, 51300, 521400>>,
       <<3700, 3799, 52300, 520900>>,
       <<3800, 3899, 53878, 521561>>,
       <<3900, 3999, 52700, 519900>>,
       <<4000, 4099, 54300, 518900>>,
       <<4100, 4199, 51800, 518300>>,
       <<4200, 4299, 49700, 518300>>,
       <<4300, 4399, 39200, 516500>>,
       <<4400, 4499, 39300, 515000>>,
       <<4500, 4599, 36100, 513700>>,
       <<4600, 4699, 42900, 514900>>,
       <<4700, 4799, 44500, 515300>>,
       <<4800, 4899, 47760, 515719>>,
       <<4900, 4999, 47000, 516700>>,
       <<5000, 5099, 50919, 515555>>,
       <<5100, 5199, 50600, 514500>>,
       <<5200, 5299, 53037, 516878>>,
       <<5300, 5399, 52400, 518100>>,
       <<5400, 5499, 56200, 516600>>,
       <<5500, 5599, 54000, 514200>>,
       <<5600, 5699, 54697, 514416>>,
       <<5700, 5799, 56600, 514800>>,
       <<5800, 5899, 59700, 515300>>,
       <<5900, 5999, 61600, 513700>>,
       <<6000, 6099, 57100, 512500>>,
       <<6100, 6199, 58000, 509500>>,
       <<6200, 6299, 56881, 508429>>,
       <<6300, 6399, 58300, 508700>>,
       <<6400, 6499, 59800, 508900>>,
       <<6500, 6599, 58669, 518426>>,
       <<6600, 6699, 57300, 518000>>,
       <<6700, 6799, 56681, 519697>>,
       <<6800, 6899, 58987, 519851>>,
       <<6900, 6999, 60700, 519100>>,
       <<7000, 7099, 62969, 519650>>,
       <<7100, 7199, 61400, 521000>>,
       <<7200, 7299, 62003, 521401>>,
       <<7300, 7399, 59694, 522112>>,
       <<7400, 7499, 61639, 522550>>,
       <<7500, 7599, 68939, 522215>>,
       <<7600, 7699, 66611, 523508>>,
       <<7700, 7799, 64500, 526000>>,
       <<7800, 7899, 69069, 527797>>,
       <<7900, 7999, 65900, 525200>>,
       <<8000, 8199, 60919, 525125>>,
       <<8200, 8299, 54714, 525181>>,
       <<8300, 8399, 57500, 527100>>,
       <<8400, 8499, 60700, 529900>>,
       <<8500, 8599, 59661, 529667>>,
       <<8600, 8699, 56581, 530311>>,
       <<8700, 8799, 55189, 530894>>,
       <<8800, 8899, 55422, 531858>>,
       <<8900, 8999, 57950, 532012>>,
       <<9000, 9099, 65665, 532194>>,
       <<9100, 9199, 65000, 531100>>,
       <<9200, 9299, 60989, 529497>>,
       <<9300, 9399, 63667, 531333>>,
       <<9400, 9499, 65611, 529956>>,
       <<9500, 9599, 69500, 529900>>,
       <<9600, 9699, 67500, 531600>>,
       <<9700, 9799, 65900, 532400>>,
       <<9800, 9899, 63500, 534000>>,
       <<9900, 9999, 68500, 533200>>
    >>

\* getPostalCodeCoordinates: default fallback, centre of the Netherlands
DefaultCoordinates == <<52913, 521326>>

InRange(code, lo, hi) == IsNumber(code) /\ code >= lo /\ code <= hi

getPostalCodeCoordinates(postalCode) ==
    LET code == parseInt(substring(postalCode, 4))
        rows == {r \in 1..Len(PostalCodeTable) :
                    InRange(code, PostalCodeTable[r][1], PostalCodeTable[r][2])}
    IN  IF rows = {} THEN DefaultCoordinates
        ELSE LET first == CHOOSE r \in rows : \A q \in rows : r <= q
             IN  <<PostalCodeTable[first][3], PostalCodeTable[first][4]>>

\* isWithinNetherlands, and the same test written out in the Dutch and MapBox services
isWithinNetherlands(coords) ==
    /\ coords[1] >= 33000 /\ coords[1] <= 73000
    /\ coords[2] >= 507000 /\ coords[2] <= 536000

\* GeocodingService.createFallbackResult: no `accuracy` field
createFallbackResult(address) ==
    [coordinates |-> getPostalCodeCoordinates(address.postalCode),
     confidence |-> 30,
     source |-> "fallback",
     accuracy |-> NoAccuracy]

\* DutchGeocodingService.createMinimalFallback
createMinimalFallback(address) ==
    LET postalCode == parseInt(substring(address.postalCode, 4))
    IN  [coordinates |->
             IF InRange(postalCode, 1000, 1999) THEN <<49041, 523676>>
             ELSE IF InRange(postalCode, 2000, 2999) THEN <<43013, 520705>>
             ELSE IF InRange(postalCode, 3000, 3999) THEN <<44777, 519225>>
             ELSE IF InRange(postalCode, 5000, 5999) THEN <<51214, 520907>>
             ELSE <<52913, 521326>>,
         confidence |-> 10,
         source |-> "fallback",
         accuracy |-> "approximate"]

\* MapBoxGeocodingService.createSmartFallback
createSmartFallback(address) ==
    LET postalCode == parseInt(substring(address.postalCode, 4))
    IN  [coordinates |->
             IF InRange(postalCode, 1000, 1399) THEN <<49041, 523676>>
             ELSE IF InRange(postalCode, 2000, 2999) THEN <<43571, 521326>>
             ELSE IF InRange(postalCode, 3000, 3999) THEN <<44777, 519225>>
             ELSE IF InRange(postalCode, 4000, 5999) THEN <<51214, 516878>>
             ELSE IF InRange(postalCode, 6000, 6999) THEN <<58669, 518426>>
             ELSE IF InRange(postalCode, 7000, 8999) THEN <<60919, 525125>>
             ELSE IF InRange(postalCode, 9000, 9999) THEN <<65665, 532194>>
             ELSE <<52913, 521326>>,
         confidence |-> 20,
         source |-> "fallback",
         accuracy |-> "approximate"]

\* the fallback of the provider's service
Fallback(p, address) ==
    IF p = "dutch" THEN createMinimalFallback(address)
    ELSE IF p = "mapbox" THEN createSmartFallback(address)
    ELSE createFallbackResult(address)

\* cacheTime of the provider's service
CacheTime(p) == IF p = "dutch" THEN DutchCacheTime ELSE GEOCODING_CACHE_DURATION

\* the cache is a Map: at most one entry [key, result, timestamp] per key
CacheGet(c, key) ==
    IF \E e \in c : e.key = key THEN CHOOSE e \in c : e.key = key ELSE Undefined

CacheDelete(c, key) == {e \in c : e.key # key}

\* getCachedResult: the result it returns (Undefined for null) ...
getCachedResult(p, c, address, time) ==
    LET cached == CacheGet(c, getCacheKey(address))
    IN  IF cached # Undefined /\ time - cached.timestamp < CacheTime(p)
        THEN [cached.result EXCEPT !.source = "cache"]
        ELSE Undefined

\* ... and the cache it leaves: an expired entry is removed
CacheAfterGet(p, c, address, time) ==
    LET cached == CacheGet(c, getCacheKey(address))
    IN  IF cached # Undefined /\ ~(time - cached.timestamp < CacheTime(p))
        THEN CacheDelete(c, getCacheKey(address))
        ELSE c

\* setCachedResult: Map.set replaces the entry of the key
setCachedResult(c, address, res, time) ==
    CacheDelete(c, getCacheKey(address))
        \cup {[key |-> getCacheKey(address), result |-> res, timestamp |-> time]}

-----------------------------------------------------------------------------
(* What a provider can answer *)

\* <<lng, lat>>: two points inside the service area, the second on its north-east
\* corner, and one point south of it
Points == {<<46400, 524300>>, <<73000, 536000>>, <<44000, 505000>>}

\* confidences in hundredths: below, at and above the 0.8 of the services
ConfidenceLevels == {70, 80, 90}

\* how one fetch ends, besides a parsed body: HTTP 429, HTTP 5xx, another HTTP error
\* status, the abort after the request timeout, a network error
FailureKinds == {"http429", "http5xx", "http4xx", "timeout", "network"}

Failures == [kind : FailureKinds, data : {Undefined}]

\* OpenCage results: `geometry` may be missing, `confidence` is on a scale of 0 to 10
OpenCageResults ==
    [geometry : {[lng |-> pt[1], lat |-> pt[2]] : pt \in Points} \cup {Undefined},
     confidence : {c \div 10 : c \in ConfidenceLevels}]

\* MapBox features: `center` may be missing (<<>>); properties.accuracy is not set
MapBoxFeatures ==
    [center : Points \cup {<<>>},
     relevance : ConfidenceLevels,
     accuracy : {NoAccuracy},
     place_type : {{"address"}, {"poi"}}]

\* PDOK docs: centroide_ll is "lat,lng" (here <<lat, lng>>) and may be missing (<<>>)
PDOKDocs ==
    [centroide_ll : {<<pt[2], pt[1]>> : pt \in Points} \cup {<<>>},
     score : ConfidenceLevels,
     type : {"adres"}]

\* PostcodeAPI results: result.geo.center.wgs84.coordinates is [lng, lat]
PostcodeResults == [coordinates : Points]

\* at most the first element of a result list is read
UpToOne(S) == {<<>>} \cup {<<x>> : x \in S}

\* the outcomes of one fetch of the provider's request function
FetchOutcomes(p) ==
    Failures \cup
    IF p = "opencage" THEN [kind : {"ok"}, data : [results : UpToOne(OpenCageResults)]]
    ELSE IF p = "mapbox" THEN [kind : {"ok"}, data : [features : UpToOne(MapBoxFeatures)]]
    ELSE [kind : {"ok"}, data : [response : [docs : UpToOne(PDOKDocs)]]]

\* the outcomes of the fetch of searchPostcodeAPI
PostcodeOutcomes ==
    Failures \cup [kind : {"ok"}, data : [results : UpToOne(PostcodeResults)]]

-----------------------------------------------------------------------------
(* The request functions: one pass through the body, given how the fetch ended.  *)
(* The value is what the pass does: return a value, throw, or wait and call      *)
(* itself with retryCount + 1.  The array makeApiRequest returns is the          *)
(* `results` field of the returned value.                                        *)

Return(v) == [kind |-> "return", value |-> v, error |-> "", delay |-> 0]
Throw(e) == [kind |-> "throw", value |-> Undefined, error |-> e, delay |-> 0]
Retry(d) == [kind |-> "retry", value |-> Undefined, error |-> "", delay |-> d]

\* 2 ** n
RECURSIVE Pow2(_)
Pow2(n) == IF n = 0 THEN 1 ELSE 2 * Pow2(n - 1)

\* makeApiRequest retrying a failed request whatever retryCount is
makeApiRequestRetryingOn(outcome, retryCount) ==
    IF outcome.kind = "ok"
    THEN Return([results |-> IF Len(outcome.data.results) > 0 THEN outcome.data.results
                             ELSE <<>>])
    ELSE IF outcome.kind = "timeout" THEN Throw("NETWORK_ERROR")
    ELSE IF outcome.kind = "http429" THEN Throw("RATE_LIMIT")
    ELSE IF outcome.kind = "http5xx" THEN Throw("API_ERROR")
    ELSE Retry(Pow2(retryCount) * 1000)

\* GeocodingService.makeApiRequest(query, retryCount)
makeApiRequest(outcome, retryCount) ==
    IF outcome.kind = "ok"
    THEN Return([results |-> IF Len(outcome.data.results) > 0 THEN outcome.data.results
                             ELSE <<>>])
    ELSE IF outcome.kind = "timeout" THEN Throw("NETWORK_ERROR")
    ELSE IF outcome.kind = "http429" THEN Throw("RATE_LIMIT")
    ELSE IF outcome.kind = "http5xx" THEN Throw("API_ERROR")
    ELSE IF retryCount < RETRY_ATTEMPTS THEN Retry(Pow2(retryCount) * 1000)
    ELSE Throw("NETWORK_ERROR")

\* MapBoxGeocodingService.makeMapBoxRequest(query, retryCount)
makeMapBoxRequest(outcome, retryCount) ==
    IF outcome.kind = "ok" THEN Return(outcome.data)
    ELSE IF outcome.kind = "timeout" THEN Throw("NETWORK_ERROR")
    ELSE IF outcome.kind = "http429" THEN Throw("RATE_LIMIT")
    ELSE IF outcome.kind = "http5xx" THEN Throw("API_ERROR")
    ELSE IF retryCount < RETRY_ATTEMPTS THEN Retry(Pow2(retryCount) * 1000)
    ELSE Throw("NETWORK_ERROR")

\* DutchGeocodingService.searchPDOK(query): no retry, null on every failure
searchPDOK(outcome) ==
    IF outcome.kind = "ok" THEN Return(outcome.data) ELSE Return(Undefined)

\* DutchGeocodingService.searchPostcodeAPI(postcode, houseNumber)
searchPostcodeAPI(outcome) ==
    IF outcome.kind = "ok" /\ Len(outcome.data.results) > 0
    THEN Return([lat |-> outcome.data.results[1].coordinates[2],
                 lng |-> outcome.data.results[1].coordinates[1]])
    ELSE Return(Undefined)

\* the request function of the provider's service
RequestPass(p, outcome, retryCount) ==
    IF p = "opencage" THEN makeApiRequest(outcome, retryCount)
    ELSE IF p = "mapbox" THEN makeMapBoxRequest(outcome, retryCount)
    ELSE searchPDOK(outcome)

-----------------------------------------------------------------------------
(* geocodeAddress: the body of `for (const query of queries)`, given what the    *)
(* request function did.  The value is the new bestResult, the in-region         *)
(* candidate the iteration saw (Undefined if none) and whether the loop is left. *)

Iterated(best, candidate, leave) ==
    [bestResult |-> best, candidate |-> candidate, break |-> leave]

\* queries.length / pdokQueries.length
NumQueries(p) == IF p = "dutch" THEN 3 ELSE 4

\* the OpenCage loop body keeping the latest of two equally confident candidates
OpenCageIterationLatestOnTies(bestResult, response) ==
    IF response.kind = "throw" THEN Iterated(bestResult, Undefined, FALSE)
    ELSE IF Len(response.value.results) = 0 THEN Iterated(bestResult, Undefined, FALSE)
    ELSE LET res == response.value.results[1]
         IN  IF res.geometry = Undefined
             THEN Iterated(bestResult, Undefined, FALSE)    \* TypeError, caught
             ELSE LET coordinates == <<res.geometry.lng, res.geometry.lat>>
                      geocodeResult == [coordinates |-> coordinates,
                                        confidence |-> res.confidence * 10,
                                        source |-> "api",
                                        accuracy |-> NoAccuracy]
                  IN  IF ~isWithinNetherlands(coordinates)
                      THEN Iterated(bestResult, Undefined, FALSE)
                      ELSE Iterated(IF bestResult = Undefined
                                       \/ geocodeResult.confidence >= bestResult.confidence
                                    THEN geocodeResult ELSE bestResult,
                                    geocodeResult,
                                    geocodeResult.confidence > 80)

\* GeocodingService.geocodeAddress, lines 181-213
OpenCageIteration(bestResult, response) ==
    IF response.kind = "throw" THEN Iterated(bestResult, Undefined, FALSE)
    ELSE IF Len(response.value.results) = 0 THEN Iterated(bestResult, Undefined, FALSE)
    ELSE LET res == response.value.results[1]
         IN  IF res.geometry = Undefined
             THEN Iterated(bestResult, Undefined, FALSE)    \* TypeError, caught
             ELSE LET coordinates == <<res.geometry.lng, res.geometry.lat>>
                      geocodeResult == [coordinates |-> coordinates,
                                        confidence |-> res.confidence * 10,
                                        source |-> "api",
                                        accuracy |-> NoAccuracy]
                  IN  IF ~isWithinNetherlands(coordinates)
                      THEN Iterated(bestResult, Undefined, FALSE)
                      ELSE Iterated(IF bestResult = Undefined
                                       \/ geocodeResult.confidence > bestResult.confidence
                                    THEN geocodeResult ELSE bestResult,
                                    geocodeResult,
                                    geocodeResult.confidence > 80)

\* MapBoxGeocodingService.geocodeAddress, lines 207-242
MapBoxIteration(bestResult, response) ==
    IF response.kind = "throw" THEN Iterated(bestResult, Undefined, FALSE)
    ELSE IF Len(response.value.features) = 0 THEN Iterated(bestResult, Undefined, FALSE)
    ELSE LET feature == response.value.features[1]
         IN  IF feature.center = <<>>
             THEN Iterated(bestResult, Undefined, FALSE)    \* TypeError, caught
             ELSE LET accuracy ==
                          IF feature.accuracy # NoAccuracy THEN feature.accuracy
                          ELSE IF "address" \in feature.place_type THEN "exact"
                          ELSE IF "poi" \in feature.place_type THEN "interpolated"
                          ELSE "approximate"
                      res == [coordinates |-> feature.center,
                              confidence |-> feature.relevance,
                              source |-> "mapbox",
                              accuracy |-> accuracy]
                  IN  IF ~isWithinNetherlands(feature.center)
                      THEN Iterated(bestResult, Undefined, FALSE)
                      ELSE IF accuracy = "exact" \/ feature.relevance > 80
                      THEN Iterated(res, res, TRUE)
                      ELSE Iterated(IF bestResult = Undefined
                                       \/ res.confidence > bestResult.confidence
                                    THEN res ELSE bestResult,
                                    res, FALSE)

\* DutchGeocodingService.geocodeAddress, lines 397-422: the first in-region doc is
\* cached and returned from inside the loop
DutchIteration(bestResult, response) ==
    IF response.value = Undefined THEN Iterated(bestResult, Undefined, FALSE)
    ELSE IF Len(response.value.response.docs) = 0 THEN Iterated(bestResult, Undefined, FALSE)
    ELSE LET doc == response.value.response.docs[1]
         IN  IF doc.centroide_ll = <<>>
             THEN Iterated(bestResult, Undefined, FALSE)    \* TypeError, caught
             ELSE LET lat == doc.centroide_ll[1]
                      lng == doc.centroide_ll[2]
                      res == [coordinates |-> <<lng, lat>>,
                              confidence |-> doc.score,
                              source |-> "pdok",
                              accuracy |-> IF doc.type = "adres" THEN "exact"
                                           ELSE "interpolated"]
                  IN  IF isWithinNetherlands(<<lng, lat>>)
                      THEN Iterated(res, res, TRUE)
                      ELSE Iterated(bestResult, Undefined, FALSE)

Iteration(p, bestResult, response) ==
    IF p = "opencage" THEN OpenCageIteration(bestResult, response)
    ELSE IF p = "mapbox" THEN MapBoxIteration(bestResult, response)
    ELSE DutchIteration(bestResult, response)

\* DutchGeocodingService.geocodeAddress, lines 426-448: the result after the PDOK
\* queries gave nothing, from what searchPostcodeAPI returned
PostcodeResult(address, postcodeResult) ==
    IF postcodeResult # Undefined
    THEN [coordinates |-> <<postcodeResult.lng, postcodeResult.lat>>,
          confidence |-> 80,
          source |-> "pdok",
          accuracy |-> "exact"]
    ELSE createMinimalFallback(address)

\* `bestResult || fallback` of the OpenCage and MapBox services
FinalResult(p, address, bestResult) ==
    IF bestResult # Undefined THEN bestResult ELSE Fallback(p, address)

\* UnifiedGeocodingService.geocodeAddress: the normalised result
UnifiedResult(p, res) ==
    [coordinates |-> res.coordinates,
     confidence |-> res.confidence,
     source |-> res.source,
     accuracy |-> IF res.accuracy = NoAccuracy THEN "approximate" ELSE res.accuracy,
     provider |-> p]

-----------------------------------------------------------------------------
(* Addresses handed to the geocoding services *)

Velserbroek ==
    [street |-> <<"A", "b">>, houseNumber |-> <<"1">>,
     postalCode |-> <<"1", "9", "9", "1", " ", "A", "B">>, city |-> <<"V", "b">>]

\* the same address typed in another case
VelserbroekOtherCase ==
    [street |-> <<"a", "B">>, houseNumber |-> <<"1">>,
     postalCode |-> <<"1", "9", "9", "1", " ", "a", "b">>, city |-> <<"v", "B">>]

Haarlem ==
    [street |-> <<"C", "d">>, houseNumber |-> <<"2">>,
     postalCode |-> <<"2", "0", "1", "1", "X", "X">>, city |-> <<"H">>]

\* an address whose postal code field holds no digits
NoPostalCode ==
    [street |-> <<"E">>, houseNumber |-> <<"3">>, postalCode |-> <<>>, city |-> <<"U">>]

GeoAddresses == {Velserbroek, VelserbroekOtherCase, Haarlem, NoPostalCode}

\* the clustering variables while a geocoding service runs
RouteIdle ==
    /\ addresses = <<>>
    /\ settings = [maxWalkingDistance |-> DefaultMaxWalkingDistance,
                   walkingSpeed |-> 5,
                   cyclingSpeed |-> 18,
                   bikeParkingTime |-> 30,
                   preferredClusterSize |-> 8,
                   homeBase |-> NoHomeBase]
    /\ ClusterIdle
    /\ WalkIdle

routeVars == <<addresses, settings, clusterVars, walkVars>>

-----------------------------------------------------------------------------
(* geocodeAddress(address) of the active provider's service, called through    *)
(* UnifiedGeocodingService.geocodeAddress, one step per await                  *)

\* the locals of a call that found nothing in the cache
Fetching(address) ==
    [status |-> "fetching", address |-> address, query |-> 1, retryCount |-> 0,
     delays |-> <<>>, outcome |-> "none", response |-> Undefined,
     bestResult |-> Undefined, seen |-> <<>>, result |-> Undefined, unified |-> Undefined]

\* the call has returned `res`
Returned(p, c, res) ==
    [c EXCEPT !.status = "returned", !.result = res, !.unified = UnifiedResult(p, res)]

InitGeocode ==
    /\ RouteIdle
    /\ AppIdle
    /\ pc = "geocode"
    /\ provider \in Providers
    /\ cache = {}
    /\ now = 0
    /\ call = NoCall
    /\ calls = <<>>
    /\ tasks = <<>>
    /\ batch = NoCall

\* entry: getCachedResult, and the first request of a call that missed the cache
StartGeocodeAddress ==
    /\ pc = "geocode"
    /\ call = NoCall
    /\ \E address \in GeoAddresses :
          LET cached == getCachedResult(provider, cache, address, now)
          IN  /\ call' = IF cached # Undefined
                         THEN Returned(provider, Fetching(address), cached)
                         ELSE Fetching(address)
              /\ cache' = CacheAfterGet(provider, cache, address, now)
    /\ UNCHANGED <<pc, provider, now, calls, tasks, batch>>
    /\ UNCHANGED routeVars
    /\ UNCHANGED appVars

\* the fetch of the request function settles: the function returns, throws, or
\* starts the wait before a retry
FetchSettles ==
    /\ pc = "geocode"
    /\ call # NoCall
    /\ call.status = "fetching"
    /\ \E outcome \in FetchOutcomes(provider) :
          LET pass == RequestPass(provider, outcome, call.retryCount)
          IN  call' = IF pass.kind = "retry"
                      THEN [call EXCEPT !.status = "waiting",
                                        !.outcome = outcome.kind,
                                        !.delays = Append(@, pass.delay)]
                      ELSE [call EXCEPT !.status = "responded",
                                        !.outcome = outcome.kind,
                                        !.response = pass]
    /\ UNCHANGED <<pc, provider, cache, now, calls, tasks, batch>>
    /\ UNCHANGED routeVars
    /\ UNCHANGED appVars

\* the backoff delay has passed: the request function calls itself
BackoffElapsed ==
    /\ pc = "geocode"
    /\ call # NoCall
    /\ call.status = "waiting"
    /\ call' = [call EXCEPT !.status = "fetching", !.retryCount = @ + 1]
    /\ UNCHANGED <<pc, provider, cache, now, calls, tasks, batch>>
    /\ UNCHANGED routeVars
    /\ UNCHANGED appVars

\* the rest of the loop iteration after `await`; after the last iteration (or a
\* break) the result is chosen, cached and returned; the Dutch service goes on to
\* the PostcodeAPI lookup when no PDOK query gave an in-region doc
QueryIteration ==
    /\ pc = "geocode"
    /\ call # NoCall
    /\ call.status = "responded"
    /\ LET it == Iteration(provider, call.bestResult, call.response)
           seen == IF it.candidate # Undefined THEN Append(call.seen, it.candidate)
                   ELSE call.seen
           after == [call EXCEPT !.bestResult = it.bestResult, !.seen = seen,
                                 !.response = Undefined]
           final == FinalResult(provider, call.address, it.bestResult)
       IN  IF ~it.break /\ call.query < NumQueries(provider)
           THEN /\ call' = [after EXCEPT !.status = "fetching", !.query = @ + 1,
                                         !.retryCount = 0, !.delays = <<>>]
                /\ cache' = cache
           ELSE IF ~it.break /\ provider = "dutch"
           THEN /\ call' = [after EXCEPT !.status = "postcode", !.query = @ + 1,
                                         !.retryCount = 0, !.delays = <<>>]
                /\ cache' = cache
           ELSE /\ call' = Returned(provider, after, final)
                /\ cache' = setCachedResult(cache, call.address, final, now)
    /\ UNCHANGED <<pc, provider, now, calls, tasks, batch>>
    /\ UNCHANGED routeVars
    /\ UNCHANGED appVars

\* DutchGeocodingService: searchPostcodeAPI settles; its result, or else the
\* minimal fallback, is cached and returned
PostcodeSettles ==
    /\ pc = "geocode"
    /\ call # NoCall
    /\ call.status = "postcode"
    /\ \E outcome \in PostcodeOutcomes :
          LET final == PostcodeResult(call.address, searchPostcodeAPI(outcome).value)
              seen == IF final.source # "fallback" /\ isWithinNetherlands(final.coordinates)
                      THEN Append(call.seen, final) ELSE call.seen
          IN  /\ call' = Returned(provider,
                                 [call EXCEPT !.outcome = outcome.kind, !.seen = seen],
                                 final)
              /\ cache' = setCachedResult(cache, call.address, final, now)
    /\ UNCHANGED <<pc, provider, now, calls, tasks, batch>>
    /\ UNCHANGED routeVars
    /\ UNCHANGED appVars

NextGeocode ==
    \/ StartGeocodeAddress
    \/ FetchSettles
    \/ BackoffElapsed
    \/ QueryIteration
    \/ PostcodeSettles

SpecGeocode == InitGeocode /\ [][NextGeocode]_vars

-----------------------------------------------------------------------------
(* geocodeAddress as a function of what the request functions do, one response   *)
(* per query in the order of the queries                                         *)

\* what the request function of the provider's service can end with
QueryResponses(p) == {RequestPass(p, outcome, RETRY_ATTEMPTS) : outcome \in FetchOutcomes(p)}

\* `for (const query of queries)`: the bestResult it leaves, whether it was left by
\* break / return, and the number of queries it issued
RECURSIVE QueryLoop(_, _, _, _)
QueryLoop(p, bestResult, responses, issued) ==
    IF Len(responses) = 0
    THEN [bestResult |-> bestResult, break |-> FALSE, queries |-> issued]
    ELSE LET it == Iteration(p, bestResult, Head(responses))
         IN  IF it.break
             THEN [bestResult |-> it.bestResult, break |-> TRUE, queries |-> issued + 1]
             ELSE QueryLoop(p, it.bestResult, Tail(responses), issued + 1)

\* the provider's answer to one call: the result taken from a provider (Undefined if
\* the call ends in the fallback) and the number of requests sent, retries not counted
ProviderAnswer(p, responses, postcodeOutcome) ==
    LET loop == QueryLoop(p, Undefined, responses, 0)
        postcodeResult == searchPostcodeAPI(postcodeOutcome).value
    IN  IF p = "dutch" /\ ~loop.break
        THEN [result |-> IF postcodeResult # Undefined
                         THEN PostcodeResult(Velserbroek, postcodeResult)
                         ELSE Undefined,
              requests |-> loop.queries + 1]
        ELSE [result |-> loop.bestResult, requests |-> loop.queries]

\* the points of Points inside the service area
InRegionPoints == {pt \in Points : isWithinNetherlands(pt)}

\* a parsed body with one result at the point, of the highest confidence
FoundAt(p, pt) ==
    [kind |-> "ok",
     data |-> IF p = "opencage"
              THEN [results |-> <<[geometry |-> [lng |-> pt[1], lat |-> pt[2]],
                                   confidence |-> 9]>>]
              ELSE IF p = "mapbox"
              THEN [features |-> <<[center |-> pt, relevance |-> 90,
                                    accuracy |-> NoAccuracy, place_type |-> {"address"}]>>]
              ELSE [response |-> [docs |-> <<[centroide_ll |-> <<pt[2], pt[1]>>,
                                             score |-> 90, type |-> "adres"]>>]]]

TimedOut == [kind |-> "timeout", data |-> Undefined]

\* the answers of a provider that, during one call, either finds the address at one
\* of the in-region points on every query or lets every request time out
SteadyAnswers ==
    [p \in Providers |->
        {ProviderAnswer(p, [q \in 1..NumQueries(p) |-> RequestPass(p, outcome, 0)], TimedOut) :
            outcome \in {FoundAt(p, pt) : pt \in InRegionPoints} \cup {TimedOut}}]

\* geocodeAddress of the provider's service on a cache miss
ResolvedResult(p, address, answer) ==
    IF answer.result # Undefined THEN answer.result ELSE Fallback(p, address)

-----------------------------------------------------------------------------
(* Calls of geocodeAddress one after the other on one service, each call taken   *)
(* as a whole, with the clock advancing between calls                            *)

\* most calls in one run
MaxCalls == 3

\* the addresses of the calls: two spellings of one address, and another address
CachedAddresses == {Velserbroek, VelserbroekOtherCase, Haarlem}

\* what is kept of a call that has settled: its argument, when it started and
\* ended, the result of the provider's service, the result of the unified service,
\* the number of provider requests it sent, and whether its coordinate is a
\* postal-code fallback
Settled(p, address, time, res, requests, isFallback) ==
    [address |-> address, start |-> time, end |-> time, result |-> res,
     unified |-> UnifiedResult(p, res), requests |-> requests, fallback |-> isFallback]

InitCache ==
    /\ RouteIdle
    /\ AppIdle
    /\ pc = "cache"
    /\ provider \in Providers
    /\ cache = {}
    /\ now = 0
    /\ call = NoCall
    /\ calls = <<>>
    /\ tasks = <<>>
    /\ batch = NoCall

\* geocodeAddress answered by getCachedResult
GeocodeAddressFromCache ==
    /\ pc = "cache"
    /\ Len(calls) < MaxCalls
    /\ \E address \in CachedAddresses :
          LET cached == getCachedResult(provider, cache, address, now)
          IN  /\ cached # Undefined
              /\ calls' = Append(calls,
                     Settled(provider, address, now, cached, 0,
                             CacheGet(cache, getCacheKey(address)).result.source = "fallback"))
              /\ cache' = CacheAfterGet(provider, cache, address, now)
    /\ UNCHANGED <<pc, provider, now, call, tasks, batch>>
    /\ UNCHANGED routeVars
    /\ UNCHANGED appVars

\* geocodeAddress that finds no fresh entry: the queries are sent, the result (a
\* provider's or the fallback) is cached and returned
GeocodeAddressResolving ==
    /\ pc = "cache"
    /\ Len(calls) < MaxCalls
    /\ \E address \in CachedAddresses, answer \in SteadyAnswers[provider] :
          LET res == ResolvedResult(provider, address, answer)
          IN  /\ getCachedResult(provider, cache, address, now) = Undefined
              /\ calls' = Append(calls,
                     Settled(provider, address, now, res, answer.requests,
                             answer.result = Undefined))
              /\ cache' = setCachedResult(CacheAfterGet(provider, cache, address, now),
                                          address, res, now)
    /\ UNCHANGED <<pc, provider, now, call, tasks, batch>>
    /\ UNCHANGED routeVars
    /\ UNCHANGED appVars

\* time passes
ClockTicks ==
    /\ pc = "cache"
    /\ now < MaxClock * ClockTick
    /\ now' = now + ClockTick
    /\ UNCHANGED <<pc, provider, cache, call, calls, tasks, batch>>
    /\ UNCHANGED routeVars
    /\ UNCHANGED appVars

NextCache ==
    \/ GeocodeAddressFromCache
    \/ GeocodeAddressResolving
    \/ ClockTicks

SpecCache == InitCache /\ [][NextCache]_vars

-----------------------------------------------------------------------------
(* geocodeAddresses(addresses) of the active provider's service, called through  *)
(* UnifiedGeocodingService.geocodeAddresses.  The geocodeAddress calls of one    *)
(* batch run concurrently: each checks the cache when the batch starts and       *)
(* settles later, in any order.                                                  *)

\* longest address list passed to geocodeAddresses
MaxBatchAddresses == 3

\* batchSize of the provider's service
batchSize(p) == IF p = "dutch" THEN 2 ELSE IF p = "mapbox" THEN 3 ELSE 5

\* the delay between two batches, in milliseconds
BatchDelay(p) == IF p = "dutch" THEN 2000 ELSE IF p = "mapbox" THEN 1200 ELSE 1000

Min(a, b) == IF a < b THEN a ELSE b

\* the slicing loop that drops a last batch shorter than batchSize
RECURSIVE FullBatchesOnly(_, _)
FullBatchesOnly(list, size) ==
    IF Len(list) < size THEN <<>>
    ELSE <<SubSeq(list, 1, size)>> \o FullBatchesOnly(SubSeq(list, size + 1, Len(list)), size)

\* `for (let i = 0; i < addresses.length; i += batchSize) batches.push(slice(i, i + batchSize))`
RECURSIVE Batches(_, _)
Batches(list, size) ==
    IF Len(list) = 0 THEN <<>>
    ELSE <<SubSeq(list, 1, Min(size, Len(list)))>>
         \o Batches(SubSeq(list, Min(size, Len(list)) + 1, Len(list)), size)

\* the input lists: up to MaxBatchAddresses addresses with the ids 1, 2, ...
BatchInputs ==
    UNION {[1..n -> CachedAddresses] : n \in 0..MaxBatchAddresses}

WithAddressIds(list) ==
    [k \in 1..Len(list) |->
        [id |-> k, street |-> list[k].street, houseNumber |-> list[k].houseNumber,
         postalCode |-> list[k].postalCode, city |-> list[k].city]]

\* the cache after the getCachedResult calls of a starting batch
RECURSIVE CacheAfterGets(_, _, _, _)
CacheAfterGets(p, c, list, time) ==
    IF Len(list) = 0 THEN c
    ELSE CacheAfterGets(p, CacheAfterGet(p, c, Head(list), time), Tail(list), time)

\* Map.set on `results`
MapSet(map, key, value) ==
    [k \in DOMAIN map \cup {key} |-> IF k = key THEN value ELSE map[k]]

\* the results map of the unified service
UnifiedResults(p, results) == [id \in DOMAIN results |-> UnifiedResult(p, results[id])]

InitBatch ==
    /\ RouteIdle
    /\ AppIdle
    /\ pc = "batch"
    /\ provider \in Providers
    /\ cache = {}
    /\ now = 0
    /\ call = NoCall
    /\ calls = <<>>
    /\ tasks = <<>>
    /\ batch = NoCall

\* geocodeAddresses is called: results and errors are empty, the batches are cut
StartGeocodeAddresses ==
    /\ pc = "batch"
    /\ batch = NoCall
    /\ \E list \in BatchInputs :
          batch' = [addresses |-> WithAddressIds(list),
                    batches |-> Batches(WithAddressIds(list), batchSize(provider)),
                    results |-> <<>>,
                    errors |-> <<>>,
                    unified |-> <<>>,
                    status |-> "loop"]
    /\ UNCHANGED <<pc, provider, cache, now, call, calls, tasks>>
    /\ UNCHANGED routeVars
    /\ UNCHANGED appVars

\* `batch.map(async ...)`: every call of the batch runs up to its first await, that
\* is, through getCachedResult
StartBatch ==
    /\ pc = "batch"
    /\ batch # NoCall
    /\ batch.status = "loop"
    /\ Len(batch.batches) > 0
    /\ LET members == Head(batch.batches)
       IN  /\ tasks' = [k \in 1..Len(members) |->
                           [address |-> members[k],
                            cached |-> getCachedResult(provider, cache, members[k], now),
                            settled |-> FALSE]]
           /\ cache' = CacheAfterGets(provider, cache, members, now)
    /\ batch' = [batch EXCEPT !.status = "awaiting"]
    /\ UNCHANGED <<pc, provider, now, call, calls>>
    /\ UNCHANGED routeVars
    /\ UNCHANGED appVars

\* one geocodeAddress call of the batch settles: its result (the cached one, or the
\* one it resolved and stores in the cache) is put into `results`
TaskSettles ==
    /\ pc = "batch"
    /\ batch # NoCall
    /\ batch.status = "awaiting"
    /\ \E k \in 1..Len(tasks) :
          /\ ~tasks[k].settled
          /\ tasks' = [tasks EXCEPT ![k].settled = TRUE]
          /\ IF tasks[k].cached # Undefined
             THEN /\ batch' = [batch EXCEPT
                                  !.results = MapSet(@, tasks[k].address.id, tasks[k].cached)]
                  /\ cache' = cache
             ELSE \E answer \in SteadyAnswers[provider] :
                     LET res == ResolvedResult(provider, tasks[k].address, answer)
                     IN  /\ batch' = [batch EXCEPT
                                         !.results = MapSet(@, tasks[k].address.id, res)]
                         /\ cache' = setCachedResult(cache, tasks[k].address, res, now)
    /\ UNCHANGED <<pc, provider, now, call, calls>>
    /\ UNCHANGED routeVars
    /\ UNCHANGED appVars

\* `await Promise.all(promises)` is over; before another batch the rate-limiting
\* delay is waited for
JoinBatch ==
    /\ pc = "batch"
    /\ batch # NoCall
    /\ batch.status = "awaiting"
    /\ \A k \in 1..Len(tasks) : tasks[k].settled
    /\ tasks' = <<>>
    /\ batch' = [batch EXCEPT !.batches = Tail(@), !.status = "loop"]
    /\ now' = IF Len(batch.batches) > 1 THEN now + BatchDelay(provider) ELSE now
    /\ UNCHANGED <<pc, provider, cache, call, calls>>
    /\ UNCHANGED routeVars
    /\ UNCHANGED appVars

\* `return { results, errors }`, normalised by the unified service
ReturnGeocodeAddresses ==
    /\ pc = "batch"
    /\ batch # NoCall
    /\ batch.status = "loop"
    /\ Len(batch.batches) = 0
    /\ batch' = [batch EXCEPT !.status = "returned",
                              !.unified = UnifiedResults(provider, batch.results)]
    /\ UNCHANGED <<pc, provider, cache, now, call, calls, tasks>>
    /\ UNCHANGED routeVars
    /\ UNCHANGED appVars

NextBatch ==
    \/ StartGeocodeAddresses
    \/ StartBatch
    \/ TaskSettles
    \/ JoinBatch
    \/ ReturnGeocodeAddresses

SpecBatch == InitBatch /\ [][NextBatch]_vars

-----------------------------------------------------------------------------
(* Claims about geocodeAddress *)

InCall == call # NoCall
HasReturned == InCall /\ call.status = "returned"

IsCoordinate(c) == Len(c) = 2 /\ c[1] \in Int /\ c[2] \in Int

\* the longest a request function can take for one query: RETRY_ATTEMPTS + 1 fetches,
\* RETRY_ATTEMPTS waits, and the loop iteration that follows
StepsPerQuery == 2 * RETRY_ATTEMPTS + 2

\* an upper bound on the steps the call can still take
StepsLeft(p, c) ==
    IF c.status = "returned" THEN 0
    ELSE IF c.status = "postcode" THEN 1
    ELSE (NumQueries(p) - c.query) * StepsPerQuery
         + (IF p = "dutch" THEN 1 ELSE 0)
         + (IF c.status = "fetching" THEN 2 * (RETRY_ATTEMPTS - c.retryCount) + 2
            ELSE IF c.status = "waiting" THEN 2 * (RETRY_ATTEMPTS - c.retryCount) + 1
            ELSE 1)

\* C11: whatever the provider answers (results, none, out-of-region, HTTP errors, rate
\* limit, timeout, network error), a geocodeAddress call of each provider's service
\* and of the unified service is only ever fetching, waiting for a retry, handling a
\* response or returned (it never rejects), every step of it uses up a finite budget
\* of steps (it never keeps retrying), and once returned its result carries a
\* coordinate.
C11_AlwaysReturnsCoordinate ==
    /\ [](InCall =>
            /\ call.status \in {"fetching", "waiting", "responded", "postcode", "returned"}
            /\ StepsLeft(provider, call) >= 0
            /\ call.retryCount <= RETRY_ATTEMPTS
            /\ (call.status = "returned" =>
                   /\ IsCoordinate(call.result.coordinates)
                   /\ call.unified.coordinates = call.result.coordinates))
    /\ [][InCall => StepsLeft(provider', call') < StepsLeft(provider, call)]_vars

\* a call returned the fallback after its last request had used every retry
C11_Witness ==
    /\ HasReturned
    /\ call.result.source = "fallback"
    /\ Len(call.delays) = RETRY_ATTEMPTS
    /\ call.outcome \in {"network", "http4xx"}

-----------------------------------------------------------------------------
(* Claims about calls that follow one another *)

\* C12: every settled call whose coordinate is a postal-code fallback, whether the
\* fallback was made in that call or comes out of the cache, returns (through the
\* unified service) source = 'fallback', accuracy = 'approximate' and a confidence
\* of at most 0.3.
C12_FallbackFlagged ==
    \A k \in 1..Len(calls) :
        calls[k].fallback =>
            /\ calls[k].unified.source = "fallback"
            /\ calls[k].unified.accuracy = "approximate"
            /\ calls[k].unified.confidence <= 30

\* the same street, house number, postal code and city, compared case-insensitively
SameAddress(a, b) ==
    /\ toLowerCase(a.street) = toLowerCase(b.street)
    /\ toLowerCase(a.houseNumber) = toLowerCase(b.houseNumber)
    /\ toLowerCase(a.postalCode) = toLowerCase(b.postalCode)
    /\ toLowerCase(a.city) = toLowerCase(b.city)

\* call j is for the address of call i and starts less than the cache TTL after
\* call i ended
RepeatsWithinTTL(i, j) ==
    /\ i < j
    /\ SameAddress(calls[i].address, calls[j].address)
    /\ calls[j].start - calls[i].end < CacheTime(provider)

AnsweredAlike(i, j) ==
    /\ calls[j].result.coordinates = calls[i].result.coordinates
    /\ calls[j].requests = 0

\* C13 as stated: of any two calls for the same address, the second one, if made
\* less than the cache TTL after the first one completed, returns the coordinate of
\* the first and sends no provider request.
C13_SameCoordinateAfterAnyCall ==
    \A i, j \in 1..Len(calls) : RepeatsWithinTTL(i, j) => AnsweredAlike(i, j)

\* C13, amended: the same, when the first of the two calls is one that resolved the
\* address itself (it sent provider requests and stored the cache entry); the TTL
\* runs from that call, not from later calls answered from the cache.
C13_SameCoordinateAfterResolution ==
    \A i, j \in 1..Len(calls) :
        RepeatsWithinTTL(i, j) /\ calls[i].requests > 0 => AnsweredAlike(i, j)

\* an address was resolved, and later, but within the TTL, asked for again in
\* another spelling
C13_Witness ==
    \E i, j \in 1..Len(calls) :
        /\ RepeatsWithinTTL(i, j)
        /\ calls[i].requests > 0
        /\ calls[i].address # calls[j].address
        /\ calls[j].start > calls[i].end
        /\ AnsweredAlike(i, j)
        /\ calls[j].result.source = "cache"

-----------------------------------------------------------------------------
\* the addresses of the call that are no longer waiting in `batches`
Taken(b) ==
    {b.addresses[k] : k \in 1..Len(b.addresses)} \
    UNION {{b.batches[i][k] : k \in 1..Len(b.batches[i])} : i \in 1..Len(b.batches)}

\* the addresses whose geocodeAddress call has not settled yet
InFlight == {tasks[k].address : k \in {j \in 1..Len(tasks) : ~tasks[j].settled}}

\* `errors` holds an entry for the address
HasError(b, a) ==
    \E e \in 1..Len(b.errors) : b.errors[e].address = <<a.street, a.houseNumber>>

Processed(b, a) == a.id \in DOMAIN b.results \/ HasError(b, a)

\* C14: geocodeAddresses returns only after every input address has been processed:
\* on return every input id has an entry in `results` (and in the unified results)
\* or a matching entry in `errors`; and whatever the other calls came to, fallbacks
\* included, every address whose call has settled is processed, in the batch it
\* shares with them and in the later batches.
C14_EveryAddressProcessed ==
    batch # NoCall =>
        /\ \A a \in Taken(batch) \ InFlight : Processed(batch, a)
        /\ batch.status = "returned" =>
              /\ Taken(batch) = {batch.addresses[k] : k \in 1..Len(batch.addresses)}
              /\ InFlight = {}
              /\ \A k \in 1..Len(batch.addresses) :
                    /\ Processed(batch, batch.addresses[k])
                    /\ batch.addresses[k].id \in DOMAIN batch.results =>
                          /\ batch.addresses[k].id \in DOMAIN batch.unified
                          /\ IsCoordinate(batch.results[batch.addresses[k].id].coordinates)

\* three addresses went through two batches: the first degraded to its fallback,
\* the last, in the later batch, got a provider result
C14_Witness ==
    /\ batch # NoCall
    /\ batch.status = "returned"
    /\ provider = "dutch"
    /\ Len(batch.addresses) = 3
    /\ batch.results[1].source = "fallback"
    /\ batch.results[3].source = "pdok"

-----------------------------------------------------------------------------
\* the delays before the first n retries: 1 s, 2 s, 4 s, ...
BackoffDelays(n) == [i \in 1..n |-> Pow2(i - 1) * 1000]

\* C15: in makeApiRequest and makeMapBoxRequest a request that times out is retried
\* with exponentially growing delays until maxRetries retries have been made: the
\* query fails on a timeout only after that.
C15_TimeoutRetried ==
    (/\ InCall
     /\ provider \in {"opencage", "mapbox"}
     /\ call.status = "responded"
     /\ call.outcome = "timeout")
    => /\ call.retryCount = RETRY_ATTEMPTS
       /\ call.delays = BackoffDelays(RETRY_ATTEMPTS)

-----------------------------------------------------------------------------
\* the entry has not expired
Fresh(entry) == now - entry.timestamp < CacheTime(provider)

\* C16: the cache has insert-if-absent semantics: a fresh entry stays in the cache,
\* not replaced by a resolution of the same key that completes later.
C16_InsertIfAbsent ==
    [][\A entry \in cache : Fresh(entry) => entry \in cache']_vars

-----------------------------------------------------------------------------
\* the call resolved its address (it did not return a cached result)
Resolved == HasReturned /\ call.result.source # "cache"

\* the index of the first candidate of `seen` in the set S of indexes
FirstOf(S) == CHOOSE i \in S : \A j \in S : i <= j

\* the candidate with the highest confidence, the earliest on ties
HighestSeen(seen) ==
    seen[FirstOf({i \in 1..Len(seen) :
                     \A j \in 1..Len(seen) : seen[j].confidence <= seen[i].confidence})]

\* the first candidate with confidence > 0.8, otherwise the highest seen
FirstConfidentElseHighest(seen) ==
    LET confident == {i \in 1..Len(seen) : seen[i].confidence > 80}
    IN  IF confident # {} THEN seen[FirstOf(confident)] ELSE HighestSeen(seen)

\* the first candidate that is an exact match or has confidence > 0.8, otherwise
\* the highest seen
FirstExactOrConfidentElseHighest(seen) ==
    LET preferred == {i \in 1..Len(seen) :
                         seen[i].accuracy = "exact" \/ seen[i].confidence > 80}
    IN  IF preferred # {} THEN seen[FirstOf(preferred)] ELSE HighestSeen(seen)

\* the result is the fallback of the provider's service
IsFallbackOf(p, c) == c.result = Fallback(p, c.address)

-----------------------------------------------------------------------------
\* C18: every non-fallback coordinate returned and cached by geocodeAddress lies
\* inside the service bounding box, on every lookup path.
C18_ResultInRegion ==
    /\ HasReturned /\ call.result.source # "fallback"
          => isWithinNetherlands(call.result.coordinates)
    /\ \A entry \in cache :
          entry.result.source # "fallback" => isWithinNetherlands(entry.result.coordinates)

-----------------------------------------------------------------------------
\* the fixed table entry for the postal range 1900-1999
Range1900 == <<46180, 524584>>

\* lat = 52.3676 + (code - 1000) x 0.001, lng = 4.9041 + (code - 1000) x 0.0005
LinearFormula(code) == <<49041 + (code - 1000) * 5, 523676 + (code - 1000) * 10>>

\* C19: when every provider lookup fails for an address with postal code '1991 AB',
\* the coordinate returned is the table entry for the range 1900-1999, whichever
\* provider is active, and not the value of the linear formula.
C19_TableFallbackFor1991 ==
    (/\ Resolved
     /\ call.address.postalCode = Velserbroek.postalCode
     /\ call.seen = <<>>
     /\ call.outcome # "ok")
    => /\ call.unified.coordinates = Range1900
       /\ call.unified.coordinates # LinearFormula(1991)

-----------------------------------------------------------------------------
\* C20: createBikeWalkRoute called with an empty address list returns normally,
\* with or without a home base: no step of it is stuck, and the route it returns has
\* no clusters and walking, cycling and total distances and times all equal to 0.
C20_EmptyInputEmptyRoute ==
    (pc \in {"grow", "redistribute", "done"} /\ addresses = <<>>) =>
        /\ pc = "grow" => unassigned = <<>>
        /\ pc = "redistribute" => smallClusters = <<>> /\ optimizedClusters = <<>>
        /\ pc = "done" =>
              /\ result # NoResult
              /\ result.clusters = <<>>
              /\ result.totalDistance = 0
              /\ result.walkingDistance = 0
              /\ result.cyclingDistance = 0
              /\ result.totalTime = 0
              /\ result.walkingTime = 0
              /\ result.cyclingTime = 0

\* the route for no addresses has been returned, a home base being set
C20_Witness ==
    /\ pc = "done"
    /\ addresses = <<>>
    /\ HasHomeBase(settings)
    /\ result # NoResult
    /\ result.clusters = <<>>
    /\ result.totalTime = 0

-----------------------------------------------------------------------------
(* createBikeWalkRoute called with settings outside their meaning *)

\* longest address list of the runs with such settings
MaxConfigAddresses == 2

\* preferredClusterSize < 1, a negative walkingSpeed, a negative cyclingSpeed
InvalidConfiguration(s) ==
    s.preferredClusterSize < 1 \/ s.walkingSpeed < 0 \/ s.cyclingSpeed < 0

\* the default settings, and settings that differ from them in one invalid value
ConfigurationChoices ==
    [maxWalkingDistance : {DefaultMaxWalkingDistance},
     walkingSpeed : {5},
     cyclingSpeed : {18},
     bikeParkingTime : {30},
     preferredClusterSize : {0 - 1, 0, 8},
     homeBase : HomeBases]
    \cup
    [maxWalkingDistance : {DefaultMaxWalkingDistance},
     walkingSpeed : {0 - 5, 5},
     cyclingSpeed : {0 - 18, 18},
     bikeParkingTime : {30},
     preferredClusterSize : {8},
     homeBase : HomeBases]

InitConfig ==
    /\ \E coords \in AddressLists(StreetCoordinates, MaxConfigAddresses) :
          addresses = WithIds(coords)
    /\ settings \in ConfigurationChoices
    /\ pc = "grow"
    /\ unassigned = addresses
    /\ clusterId = 0
    /\ clusters = <<>>
    /\ smallClusters = <<>>
    /\ optimizedClusters = <<>>
    /\ result = NoResult
    /\ WalkIdle
    /\ GeoIdle
    /\ AppIdle

SpecConfig == InitConfig /\ [][Next]_vars

\* C21: a configuration with preferredClusterSize < 1 or with a negative walkingSpeed
\* or cyclingSpeed is rejected before any clustering or route-optimisation step runs:
\* no cluster is ever built for it and no route is returned.
C21_InvalidConfigurationRejected ==
    InvalidConfiguration(settings) =>
        /\ clusters = <<>>
        /\ optimizedClusters = <<>>
        /\ result = NoResult

-----------------------------------------------------------------------------
\* the cluster seed-and-grow finished last
LastGrown == clusters[Len(clusters)]

\* the unassigned stops within maxWalkingDistance of a member of cluster c
StillInRange(c) ==
    {k \in 1..Len(unassigned) :
        WithinRange(unassigned[k], AddressesOf(c.addresses, addresses), settings)}

\* C23: when seed-and-grow finishes a cluster, the cluster has reached
\* preferredClusterSize members or no still-unassigned stop is within
\* maxWalkingDistance of any of its members, stops that came into range through a
\* member added later in the scan included.
C23_GrownUntilFullOrOutOfRange ==
    (pc = "grow" /\ Len(clusters) > 0) =>
        \/ Len(LastGrown.addresses) >= settings.preferredClusterSize
        \/ StillInRange(LastGrown) = {}

-----------------------------------------------------------------------------
\* C28: when seed-and-grow ends every cluster has at most preferredClusterSize
\* members, and during and after redistribution every cluster of the result has at
\* most floor(1.5 x preferredClusterSize) members, however many small clusters the
\* same target absorbed.
C28_ClusterSizeCaps ==
    settings.preferredClusterSize >= 1 =>
        /\ \A k \in 1..Len(clusters) :
              Len(clusters[k].addresses) <= settings.preferredClusterSize
        /\ \A k \in 1..Len(optimizedClusters) :
              2 * Len(optimizedClusters[k].addresses) <= 3 * settings.preferredClusterSize

\* returned: a cluster that grew past preferredClusterSize by a merge and has no
\* room for another member, beside a cluster all of whose members are in reach of it
C28_Witness ==
    /\ ClustersReturned
    /\ \E k, j \in 1..Len(optimizedClusters) :
          /\ j # k
          /\ HasAbsorbed(optimizedClusters[k])
          /\ Len(optimizedClusters[k].addresses) > settings.preferredClusterSize
          /\ 2 * (Len(optimizedClusters[k].addresses) + 1) > 3 * settings.preferredClusterSize
          /\ ReachableFrom(optimizedClusters[j], optimizedClusters[k])

-----------------------------------------------------------------------------
(* Claims about the walking route of one cluster *)

\* every member of the cluster has coordinates, as in every cluster of two or more
\* members that createClusters builds
AllLocated == \A k \in 1..Len(addresses) : HasCoordinates(addresses[k])

\* length of the closed tour anchor -> stops of rt in order -> anchor
TourLength(rt) == calculateRouteDistance(rt, bikeLocation)

\* C22: the route optimizeWalkingRoute returns for 3 or more stops is 2-opt locally
\* optimal for the closed tour through the anchor: reversing any segment of it, the
\* segments that begin at the first stop (the edge leaving the anchor) and those that
\* end at the last stop (the edge returning to it) included, gives no strictly
\* shorter tour.
C22_TwoOptLocalOptimum ==
    (pc \in {"return", "clusterDone"} /\ Len(addresses) >= 3 /\ AllLocated) =>
        \A first, last \in 1..Len(currentRoute) :
            first <= last =>
                TourLength(ReverseSegment(currentRoute, first, last)) >= TourLength(currentRoute)

\* returned: a route of four located stops that 2-opt made shorter
C22_Witness ==
    /\ pc = "return"
    /\ Len(addresses) >= 4
    /\ AllLocated
    /\ TourLength(currentRoute) < TourLength(route)

-----------------------------------------------------------------------------
\* distance from the current position of nearestNeighborRoute to address a
FromCurrent(a) ==
    calculateDistance(currentLocation.lat, currentLocation.lng, Lat(a), Lng(a))

\* index k of `remaining` holds the nearest address, the earliest of the nearest
NearestEarliest(k) ==
    /\ \A j \in 1..Len(remaining) : FromCurrent(remaining[k]) <= FromCurrent(remaining[j])
    /\ \A j \in 1..(k - 1) : FromCurrent(remaining[k]) < FromCurrent(remaining[j])

\* C24: for members that all have coordinates, nearestNeighborRoute starts at the
\* anchor; its current position is the anchor and then the stop appended last; and
\* each step appends the remaining member nearest to the current position, the
\* earliest in the remaining list among equally near ones.
C24_NearestNeighbourConstruction ==
    /\ [](pc = "nearest" /\ AllLocated =>
             /\ IsPermutationOf(Ids(route \o remaining), Ids(addresses))
             /\ currentLocation = IF route = <<>>
                                  THEN [lat |-> bikeLocation.lat, lng |-> bikeLocation.lng]
                                  ELSE PointOf(route[Len(route)]))
    /\ [][pc = "nearest" /\ Len(remaining) > 0 /\ AllLocated =>
             \E k \in 1..Len(remaining) :
                 /\ NearestEarliest(k)
                 /\ route' = Append(route, remaining[k])
                 /\ remaining' = RemoveAt(remaining, k)]_vars

\* a step had two equally near members to choose from and appended the one that came
\* first in the list
C24_Witness ==
    /\ pc = "nearest"
    /\ AllLocated
    /\ Len(route) >= 2
    /\ \E j \in 1..Len(remaining) :
          /\ Metres(PointOf(route[Len(route) - 1]), PointOf(remaining[j]))
                = Metres(PointOf(route[Len(route) - 1]), PointOf(route[Len(route)]))
          /\ remaining[j].coordinates # route[Len(route)].coordinates
          /\ route[Len(route)].id < remaining[j].id

-----------------------------------------------------------------------------
\* C27: twoOptOptimization terminates: a pass of its while loop that sets `improved`
\* leaves a strictly shorter closed tour of the same members, a pass that does not
\* leaves the route as it is and ends the loop; tour lengths cannot decrease forever.
C27_TwoOptTerminates ==
    [][pc = "twoOpt" /\ improved =>
          /\ IsPermutationOf(Ids(currentRoute'), Ids(currentRoute))
          /\ TourLength(currentRoute') >= 0
          /\ IF improved'
             THEN TourLength(currentRoute') < TourLength(currentRoute)
             ELSE currentRoute' = currentRoute]_vars

\* the loop has ended after a pass that improved the route and one that did not
C27_Witness ==
    /\ pc = "twoOpt"
    /\ ~improved
    /\ currentRoute # route
    /\ TourLength(currentRoute) < TourLength(route)

-----------------------------------------------------------------------------
(* UnifiedGeocodingService: geocodeAddress and geocodeAddresses with            *)
(* switchProvider called at any moment, also while a call awaits its service    *)

\* most unified calls in one run
MaxSwitchCalls == 2

\* the `addresses` arguments of geocodeAddresses
SwitchBatches == {<<Haarlem>>, <<Velserbroek, Haarlem>>}

\* what the awaited provider service resolves with, for one address
ServiceResults(service, address) ==
    {ResolvedResult(service, address, answer) : answer \in SteadyAnswers[service]}

InitSwitch ==
    /\ RouteIdle
    /\ AppIdle
    /\ pc = "unified"
    /\ provider \in Providers
    /\ cache = {}
    /\ now = 0
    /\ call = NoCall
    /\ calls = <<>>
    /\ tasks = <<>>
    /\ batch = NoCall

\* switchProvider(provider)
switchProvider ==
    /\ pc = "unified"
    /\ \E p \in Providers :
          /\ p # provider
          /\ provider' = p
    /\ UNCHANGED <<pc, cache, now, call, calls, tasks, batch>>
    /\ UNCHANGED routeVars
    /\ UNCHANGED appVars

\* geocodeAddress up to its await: `service` is the active provider's service
UnifiedGeocodeAddressAwaits ==
    /\ pc = "unified"
    /\ call = NoCall
    /\ Len(calls) < MaxSwitchCalls
    /\ \E address \in {Velserbroek, Haarlem} :
          call' = [service |-> provider, many |-> FALSE, addresses |-> <<address>>]
    /\ UNCHANGED <<pc, provider, cache, now, calls, tasks, batch>>
    /\ UNCHANGED routeVars
    /\ UNCHANGED appVars

\* geocodeAddresses up to its await
UnifiedGeocodeAddressesAwaits ==
    /\ pc = "unified"
    /\ call = NoCall
    /\ Len(calls) < MaxSwitchCalls
    /\ \E list \in SwitchBatches :
          call' = [service |-> provider, many |-> TRUE, addresses |-> list]
    /\ UNCHANGED <<pc, provider, cache, now, calls, tasks, batch>>
    /\ UNCHANGED routeVars
    /\ UNCHANGED appVars

\* geocodeAddress after its await: the result is normalised and returned
UnifiedGeocodeAddressReturns ==
    /\ pc = "unified"
    /\ call # NoCall
    /\ ~call.many
    /\ \E res \in ServiceResults(call.service, call.addresses[1]) :
          calls' = Append(calls, [service |-> call.service, many |-> FALSE,
                                  results |-> <<UnifiedResult(provider, res)>>,
                                  provider |-> provider])
    /\ call' = NoCall
    /\ UNCHANGED <<pc, provider, cache, now, tasks, batch>>
    /\ UNCHANGED routeVars
    /\ UNCHANGED appVars

\* geocodeAddresses after its await: every result is normalised, the object returned
UnifiedGeocodeAddressesReturn ==
    /\ pc = "unified"
    /\ call # NoCall
    /\ call.many
    /\ \E results \in [DOMAIN call.addresses ->
                          UNION {ServiceResults(call.service, a) : a \in Range(call.addresses)}] :
          /\ \A id \in DOMAIN results :
                results[id] \in ServiceResults(call.service, call.addresses[id])
          /\ calls' = Append(calls, [service |-> call.service, many |-> TRUE,
                                     results |-> UnifiedResults(provider, results),
                                     provider |-> provider])
    /\ call' = NoCall
    /\ UNCHANGED <<pc, provider, cache, now, tasks, batch>>
    /\ UNCHANGED routeVars
    /\ UNCHANGED appVars

NextSwitch ==
    \/ switchProvider
    \/ UnifiedGeocodeAddressAwaits
    \/ UnifiedGeocodeAddressesAwaits
    \/ UnifiedGeocodeAddressReturns
    \/ UnifiedGeocodeAddressesReturn

SpecSwitch == InitSwitch /\ [][NextSwitch]_vars

\* C29: every result returned by the unified geocodeAddress and geocodeAddresses,
\* and the object geocodeAddresses returns, names in `provider` the provider whose
\* service produced it, also when switchProvider ran while the call was awaiting
C29_ProviderNamesProducingService ==
    pc = "unified" =>
        \A k \in DOMAIN calls :
            /\ calls[k].provider = calls[k].service
            /\ \A id \in DOMAIN calls[k].results :
                  calls[k].results[id].provider = calls[k].service

-----------------------------------------------------------------------------
(* RouteVisualization: walking a route session stop by stop                     *)

\* most stops in a route session
MaxStops == 4

\* the ids of a session's addresses, in input order
SessionAddressIds == <<"a", "b", "c", "d", "e">>

\* the orders of n stops: the sequences naming each index 0..n-1 once
OrdersOf(n) ==
    {order \in [1..n -> 0..(n - 1)] : \A i, j \in 1..n : i # j => order[i] # order[j]}

\* the `routeSessions` prop: one session for every order of up to MaxStops stops
RouteSessions ==
    UNION {{[optimizedOrder |-> order, addresses |-> SubSeq(SessionAddressIds, 1, n)] :
               order \in OrdersOf(n)} : n \in 0..MaxStops}

\* getCurrentAddress(): the id of the current address, Undefined for null
getCurrentAddress ==
    IF selectedSession = NoSession THEN Undefined
    ELSE IF Len(selectedSession.optimizedOrder) = 0 THEN Undefined
    ELSE [id |-> selectedSession.addresses[
                     selectedSession.optimizedOrder[currentAddressIndex + 1] + 1]]

InitNav ==
    /\ RouteIdle
    /\ GeoIdle
    /\ EarningsIdle
    /\ OptimalIdle
    /\ NavIdle
    /\ pc = "navigate"

\* the effect that selects a session when none is selected, and onValueChange of
\* the session selector
SelectSession ==
    /\ pc = "navigate"
    /\ \E session \in RouteSessions :
          /\ session # selectedSession
          /\ selectedSession' = session
    /\ currentAddressIndex' = 0
    /\ completedAddresses' = {}
    /\ isActive' = FALSE
    /\ pausedAt' = NoCall
    /\ UNCHANGED <<pc, routeVars, geoVars, earningsVars, optimalVars>>

\* the "Start route" button, shown while the route is not active
startRoute ==
    /\ pc = "navigate"
    /\ getCurrentAddress # Undefined
    /\ ~isActive
    /\ isActive' = TRUE
    /\ currentAddressIndex' = 0
    /\ completedAddresses' = {}
    /\ pausedAt' = NoCall
    /\ UNCHANGED <<pc, selectedSession, routeVars, geoVars, earningsVars, optimalVars>>

\* the "Pauzeer" button, shown while the route is active
pauseRoute ==
    /\ pc = "navigate"
    /\ getCurrentAddress # Undefined
    /\ isActive
    /\ isActive' = FALSE
    /\ pausedAt' = [index |-> currentAddressIndex, completed |-> completedAddresses]
    /\ UNCHANGED <<pc, selectedSession, currentAddressIndex, completedAddresses>>
    /\ UNCHANGED <<routeVars, geoVars, earningsVars, optimalVars>>

\* the "Voltooid" button, shown while the route is active
markCurrentComplete ==
    /\ pc = "navigate"
    /\ getCurrentAddress # Undefined
    /\ isActive
    /\ completedAddresses' = completedAddresses \cup {getCurrentAddress.id}
    /\ IF currentAddressIndex < Len(selectedSession.optimizedOrder) - 1
       THEN /\ currentAddressIndex' = currentAddressIndex + 1
            /\ UNCHANGED isActive
       ELSE /\ isActive' = FALSE
            /\ UNCHANGED currentAddressIndex
    /\ UNCHANGED <<pc, selectedSession, pausedAt>>
    /\ UNCHANGED <<routeVars, geoVars, earningsVars, optimalVars>>

NextNav ==
    \/ SelectSession
    \/ startRoute
    \/ pauseRoute
    \/ markCurrentComplete

SpecNav == InitNav /\ [][NextNav]_vars

\* C26: after pauseRoute, the step that makes the route active again leaves
\* currentAddressIndex and completedAddresses as they were when the route was paused
C26_ResumeWhereLeftOff ==
    [][(pausedAt # NoCall /\ ~isActive /\ isActive')
          => /\ currentAddressIndex' = pausedAt.index
             /\ completedAddresses' = pausedAt.completed]_vars

-----------------------------------------------------------------------------
(* EarningsService: earnings entries and the per-route records kept beside them *)
(* Amounts are in thousandths of a euro.                                       *)

\* most addEarning calls in one run
MaxEarnings == 3

\* the amounts entered: 1.004 and 2.50 euro
EarningAmounts == {1004, 2500}

\* the routes an entry can name; "" stands for an entry without routeId
EarningRouteIds == {"", "r1", "r2"}

\* Math.round(x * 100) / 100
RoundToCents(x) == ((x + 5) \div 10) * 10

\* entries.reduce((sum, e) => sum + e.amount, 0)
RECURSIVE SumOfAmounts(_)
SumOfAmounts(entries) ==
    IF entries = <<>> THEN 0
    ELSE entries[1].amount + SumOfAmounts(Tail(entries))

\* getAllEarnings().filter(e => e.routeId === routeId)
EntriesOfRoute(entries, routeId) == SelectSeq(entries, LAMBDA e : e.routeId = routeId)

\* routeEarnings.findIndex(r => r.routeId === routeId), 0 for -1
RouteIndex(records, routeId) ==
    IF \E k \in DOMAIN records : records[k].routeId = routeId
    THEN CHOOSE k \in DOMAIN records :
            /\ records[k].routeId = routeId
            /\ \A j \in 1..(k - 1) : records[j].routeId # routeId
    ELSE 0

\* updateRouteEarnings(entry) with `entries` stored: the new list of records
updateRouteEarnings(records, entries, entry) ==
    IF entry.routeId = "" THEN records
    ELSE LET existingIndex == RouteIndex(records, entry.routeId)
             ofRoute == EntriesOfRoute(entries, entry.routeId)
         IN  IF existingIndex > 0
             THEN [records EXCEPT ![existingIndex] =
                      [routeId |-> @.routeId,
                       totalEarnings |-> RoundToCents(SumOfAmounts(ofRoute)),
                       entriesCount |-> Len(ofRoute)]]
             ELSE Append(records, [routeId |-> entry.routeId,
                                   totalEarnings |-> RoundToCents(entry.amount),
                                   entriesCount |-> 1])

InitEarnings ==
    /\ RouteIdle
    /\ GeoIdle
    /\ NavIdle
    /\ OptimalIdle
    /\ EarningsIdle
    /\ pc = "earnings"

\* addEarning(earning)
addEarning ==
    /\ pc = "earnings"
    /\ nextId < MaxEarnings
    /\ \E routeId \in EarningRouteIds, amount \in EarningAmounts :
          LET newEntry == [id |-> nextId + 1, routeId |-> routeId, amount |-> amount]
              entries == Append(earnings, newEntry)
          IN  /\ earnings' = entries
              /\ routeEarnings' = updateRouteEarnings(routeEarnings, entries, newEntry)
    /\ nextId' = nextId + 1
    /\ UNCHANGED <<pc, routeVars, geoVars, navVars, optimalVars>>

\* updateEarning(id, updates) for a stored id, with a new amount or a new routeId
updateEarning ==
    /\ pc = "earnings"
    /\ \E index \in DOMAIN earnings :
       \E updates \in {[amount |-> a] : a \in EarningAmounts}
                        \cup {[routeId |-> r] : r \in EarningRouteIds} :
          /\ earnings' = [earnings EXCEPT ![index] = updates @@ earnings[index]]
          /\ earnings' # earnings
    /\ UNCHANGED <<pc, routeEarnings, nextId, routeVars, geoVars, navVars, optimalVars>>

\* deleteEarning(id) for a stored id
deleteEarning ==
    /\ pc = "earnings"
    /\ \E index \in DOMAIN earnings :
          earnings' = SelectSeq(earnings, LAMBDA e : e.id # earnings[index].id)
    /\ UNCHANGED <<pc, routeEarnings, nextId, routeVars, geoVars, navVars, optimalVars>>

NextEarnings ==
    \/ addEarning
    \/ updateEarning
    \/ deleteEarning

SpecEarnings == InitEarnings /\ [][NextEarnings]_vars

\* C30: every stored RouteEarnings record counts the stored entries of its route in
\* entriesCount and holds the sum of their amounts, rounded to cents, in totalEarnings
C30_RouteEarningsMatchEntries ==
    pc = "earnings" =>
        \A k \in DOMAIN routeEarnings :
            LET ofRoute == EntriesOfRoute(earnings, routeEarnings[k].routeId)
            IN  /\ routeEarnings[k].entriesCount = Len(ofRoute)
                /\ routeEarnings[k].totalEarnings = RoundToCents(SumOfAmounts(ofRoute))

-----------------------------------------------------------------------------
(* WalkingRoutingService.getOptimalWalkingRoute(points), one step per awaited   *)
(* getWalkingRoute, all within the hour an entry of the route cache lasts.      *)
(* Distances are in metres, durations in 1/1500 minute, points are <<lng, lat>> *)
(* on the grid of the block.                                                   *)

\* most points in one call
MaxPoints == 3

\* most getOptimalWalkingRoute calls in one run
MaxRouteCalls == 1

\* cacheTime: one hour, in milliseconds
cacheTime == 3600000

\* the coordinates a point can have
WalkPoints == {<<0, 0>>, <<1, 0>>, <<0, 1>>}

\* the `points` arguments: 0-based arrays of up to MaxPoints points
PointLists == UNION {[0..(n - 1) -> WalkPoints] : n \in 0..MaxPoints}

\* what the MapBox directions API can say about a pair of points: a route of 300 m
\* taking 240 s, or nothing usable (error, rate limit, no routes)
NoDirections == [routes |-> <<>>]
MapBoxDirections == {NoDirections, [routes |-> <<[distance |-> 300, duration |-> 240]>>]}

\* getCacheKey(from, to): grid points differ in the fourth decimal
RouteCacheKey(from, to) == <<from, to>>

\* getCachedRoute(from, to): the fresh entry's route, or Undefined
getCachedRoute(rc, from, to, time) ==
    IF /\ RouteCacheKey(from, to) \in DOMAIN rc
       /\ time - rc[RouteCacheKey(from, to)].timestamp < cacheTime
    THEN rc[RouteCacheKey(from, to)].route
    ELSE Undefined

\* the cache after getCachedRoute: an expired entry is deleted
RouteCacheAfterGet(rc, from, to, time) ==
    IF /\ RouteCacheKey(from, to) \in DOMAIN rc
       /\ time - rc[RouteCacheKey(from, to)].timestamp >= cacheTime
    THEN [key \in DOMAIN rc \ {RouteCacheKey(from, to)} |-> rc[key]]
    ELSE rc

\* setCachedRoute(from, to, route)
setCachedRoute(rc, from, to, walkingRoute, time) ==
    (RouteCacheKey(from, to) :> [route |-> walkingRoute, timestamp |-> time]) @@ rc

\* calculateFallbackRoute(from, to): straight line times 1.3, walked at 5 km/h
calculateFallbackRoute(from, to) ==
    LET walkingDistance == (calculateDistance(from[2], from[1], to[2], to[1]) * 13) \div 10
    IN  [distance |-> walkingDistance, duration |-> walkingDistance * 18]

\* the same-location test of getWalkingRoute: less than 0.0001 degree apart
SameLocation(from, to) == from = to

\* getWalkingRoute(from, to) when MapBox answers `directions`: the route returned
\* and the cache it leaves
getWalkingRoute(rc, from, to, time, directions) ==
    LET cached == getCachedRoute(rc, from, to, time)
        swept == RouteCacheAfterGet(rc, from, to, time)
        walkingRoute ==
            IF SameLocation(from, to) THEN [distance |-> 0, duration |-> 0]
            ELSE IF Len(directions.routes) > 0
                 THEN [distance |-> directions.routes[1].distance,
                       duration |-> directions.routes[1].duration * 25]
                 ELSE calculateFallbackRoute(from, to)
    IN  IF cached # Undefined
        THEN [route |-> cached, cache |-> rc]
        ELSE [route |-> walkingRoute,
              cache |-> setCachedRoute(swept, from, to, walkingRoute, time)]

\* the test of the scan: route.distance < shortestDistance
NearerOrEqual(walkingRoute, shortestDistance) == walkingRoute.distance <= shortestDistance

Nearer(walkingRoute, shortestDistance) == walkingRoute.distance < shortestDistance

\* the first index from i on that is not visited (the `continue` of the scan)
RECURSIVE SkipVisited(_, _, _)
SkipVisited(visited, i, n) ==
    IF i < n /\ i \in visited THEN SkipVisited(visited, i + 1, n) ELSE i

\* the loop variables at the start of a pass of the while loop
ScanStart(w, n) ==
    [w EXCEPT !.i = SkipVisited(w.visited, 0, n),
              !.bestNextIndex = 0 - 1,
              !.bestRoute = Undefined,
              !.shortestDistance = Infinity,
              !.scanned = <<>>]

\* the object getOptimalWalkingRoute returns, with the distances its scans were given
OptimalRoute(pts, w) ==
    [points |-> pts, routes |-> w.routes, totalDistance |-> w.totalDistance,
     totalDuration |-> w.totalDuration, optimizedOrder |-> w.optimizedOrder,
     scans |-> w.scans]

InitOptimal ==
    /\ RouteIdle
    /\ GeoIdle
    /\ NavIdle
    /\ EarningsIdle
    /\ OptimalIdle
    /\ pc = "walkingRoute"

\* getOptimalWalkingRoute(points) up to its first await, or to its return for
\* fewer than two points
getOptimalWalkingRouteStarts ==
    /\ pc = "walkingRoute"
    /\ walking = NoCall
    /\ Len(optimal) < MaxRouteCalls
    /\ \E pts \in PointLists :
          LET n == Cardinality(DOMAIN pts)
              locals == [visited |-> {0}, optimizedOrder |-> <<0>>, routes |-> <<>>,
                         totalDistance |-> 0, totalDuration |-> 0, currentIndex |-> 0,
                         i |-> 0, bestNextIndex |-> 0 - 1, bestRoute |-> Undefined,
                         shortestDistance |-> Infinity, scanned |-> <<>>, scans |-> <<>>]
          IN  /\ points' = pts
              /\ IF n < 2
                 THEN /\ optimal' = Append(optimal,
                             [points |-> pts, routes |-> <<>>, totalDistance |-> 0,
                              totalDuration |-> 0,
                              optimizedOrder |-> IF n = 1 THEN <<0>> ELSE <<>>,
                              scans |-> <<>>])
                      /\ UNCHANGED walking
                 ELSE /\ walking' = ScanStart(locals, n)
                      /\ UNCHANGED optimal
    /\ UNCHANGED <<pc, routeCache, routeVars, geoVars, navVars, earningsVars>>

\* one pass of the for loop for an unvisited i: getWalkingRoute is awaited and its
\* route compared with the best so far
ScanGetsRoute ==
    /\ pc = "walkingRoute"
    /\ walking # NoCall
    /\ walking.i < Cardinality(DOMAIN points)
    /\ \E directions \in MapBoxDirections :
          LET got == getWalkingRoute(routeCache, points[walking.currentIndex],
                                     points[walking.i], now, directions)
              better == Nearer(got.route, walking.shortestDistance)
          IN  /\ routeCache' = got.cache
              /\ walking' = [walking EXCEPT
                    !.shortestDistance = IF better THEN got.route.distance ELSE @,
                    !.bestNextIndex = IF better THEN walking.i ELSE @,
                    !.bestRoute = IF better THEN got.route ELSE @,
                    !.scanned = Append(@, [index |-> walking.i,
                                           distance |-> got.route.distance]),
                    !.i = SkipVisited(walking.visited, walking.i + 1,
                                      Cardinality(DOMAIN points))]
    /\ UNCHANGED <<pc, points, optimal, routeVars, geoVars, navVars, earningsVars>>

\* the end of a pass of the while loop: the best point is appended, or the loop is
\* left; when the loop ends the object is returned
ScanEnds ==
    /\ pc = "walkingRoute"
    /\ walking # NoCall
    /\ walking.i = Cardinality(DOMAIN points)
    /\ LET n == Cardinality(DOMAIN points)
           found == walking.bestNextIndex # 0 - 1 /\ walking.bestRoute # Undefined
           pushed == [walking EXCEPT
                         !.optimizedOrder = Append(@, walking.bestNextIndex),
                         !.visited = @ \cup {walking.bestNextIndex},
                         !.routes = Append(@, walking.bestRoute),
                         !.totalDistance = @ + walking.bestRoute.distance,
                         !.totalDuration = @ + walking.bestRoute.duration,
                         !.currentIndex = walking.bestNextIndex,
                         !.scans = Append(@, walking.scanned)]
       IN  IF found /\ Cardinality(pushed.visited) < n
           THEN /\ walking' = ScanStart(pushed, n)
                /\ UNCHANGED optimal
           ELSE /\ optimal' = Append(optimal,
                                     OptimalRoute(points, IF found THEN pushed ELSE walking))
                /\ walking' = NoCall
    /\ UNCHANGED <<pc, points, routeCache, routeVars, geoVars, navVars, earningsVars>>

NextOptimal ==
    \/ getOptimalWalkingRouteStarts
    \/ ScanGetsRoute
    \/ ScanEnds

SpecOptimal == InitOptimal /\ [][NextOptimal]_vars

\* the indices not yet in the order when its k-th entry was chosen
UnvisitedBefore(r, k) ==
    DOMAIN r.points \ {r.optimizedOrder[j] : j \in 1..(k - 1)}

\* C25: the order getOptimalWalkingRoute returns names every index 0..n-1 once and
\* starts with 0; each next index is the unvisited point whose route from the current
\* point was the shortest, the lowest index on ties; for one point the order is [0]
\* with totalDistance 0 and totalDuration 0
C25_NearestNeighbourOrder ==
    pc = "walkingRoute" =>
        \A c \in DOMAIN optimal :
            LET r == optimal[c]
                n == Cardinality(DOMAIN r.points)
            IN  /\ Len(r.optimizedOrder) = n
                /\ {r.optimizedOrder[k] : k \in 1..n} = DOMAIN r.points
                /\ n >= 1 => r.optimizedOrder[1] = 0
                /\ n = 1 => r.totalDistance = 0 /\ r.totalDuration = 0
                /\ n >= 2 =>
                      \A k \in 2..n :
                          LET scanned == r.scans[k - 1]
                              chosen == CHOOSE e \in Range(scanned) :
                                            e.index = r.optimizedOrder[k]
                          IN  /\ {e.index : e \in Range(scanned)} = UnvisitedBefore(r, k)
                              /\ \A e \in Range(scanned) :
                                    \/ chosen.distance < e.distance
                                    \/ chosen.distance = e.distance /\ chosen.index <= e.index

\* a call with three points has returned in which the two unvisited points were
\* equally near at the first scan and the lower index was visited first
C25_Witness ==
    /\ pc = "walkingRoute"
    /\ \E c \in DOMAIN optimal :
          /\ Cardinality(DOMAIN optimal[c].points) = 3
          /\ \E e, f \in Range(optimal[c].scans[1]) :
                e.index # f.index /\ e.distance = f.distance /\ e.distance > 0
          /\ optimal[c].optimizedOrder = <<0, 1, 2>>

====
